---------------------------- MODULE Spec2Model ----------------------------
(***************************************************************************)
(* Discovery and reconciliation of Databricks metadata into the local      *)
(* SourceTable / SourceColumn store.                                        *)
(*                                                                          *)
(* Modelled code:                                                           *)
(*   backend/mapping/services/databricks_service.py  (DatabricksService)    *)
(*   backend/mapping/services/discovery_service.py   (DiscoveryService)     *)
(*   backend/mapping/models.py                       (SourceTable, ...)     *)
(*                                                                          *)
(* Conventions.                                                             *)
(*   - A Python dict is a function over its keys; d.get(k, v) is Get.       *)
(*   - Python None is the empty tuple, a present nullable value v is <<v>>.  *)
(*   - A string that the code inspects character by character (a table      *)
(*     name, a comment, a search term, a type name) has its spelling given   *)
(*     by Chars.                                                            *)
(*   - A fully-qualified table name f"{c}.{s}.{t}" is the tuple <<c,s,t>>.  *)
(*   - A call that can raise returns [raised |-> BOOLEAN, ...].              *)
(*   - The failures of the external service and of the local store during   *)
(*     one invocation are the set f of fault points handed to it.           *)
(***************************************************************************)
EXTENDS Integers, Sequences, FiniteSets, TLC

VARIABLES
    store,      \* the local store: [tables, columns], sets of rows
    ext,        \* the external service's current metadata
    mappings,   \* ids of the SourceColumn rows FieldMappings reference
    now,        \* clock: number of invocations started so far
    last,       \* the last invocation: its arguments, faults and result
    run         \* the invocations in progress when requests overlap

vars == <<store, ext, mappings, now, last, run>>

----------------------------------------------------------------------------
(* Bounds of the model.                                                     *)

\* invocations per behaviour
MaxOps == 2

\* fault points that fail within one invocation
MaxFaults == 2

----------------------------------------------------------------------------
(* Python values.                                                           *)

None == <<>>

Some(v) == <<v>>

Get(d, k, default) == IF k \in DOMAIN d THEN d[k] ELSE default

\* {**a, **b} and a.update(b): the keys of b win
Update(a, b) == b @@ a

\* set(xs) of a list
SeqToSet(s) == {s[i] : i \in DOMAIN s}

----------------------------------------------------------------------------
(* Strings the code looks into.                                             *)

Chars(s) ==
    CASE s = "Ab"     -> <<"A", "b">>
      [] s = "b"      -> <<"b">>
      [] s = "c"      -> <<"c">>
      [] s = "d"      -> <<"d">>
      [] s = "xAB"    -> <<"x", "A", "B">>
      [] s = "aB"     -> <<"a", "B">>
      [] s = ""       -> <<>>
      [] s = "INT"    -> <<"I", "N", "T">>
      [] s = "STRING" -> <<"S", "T", "R", "I", "N", "G">>
      [] s = "DATE"   -> <<"D", "A", "T", "E">>
      [] s = "int"    -> <<"i", "n", "t">>
      [] s = "bigint" -> <<"b", "i", "g", "i", "n", "t">>
      [] s = "decimal" -> <<"d", "e", "c", "i", "m", "a", "l">>
      [] s = "double" -> <<"d", "o", "u", "b", "l", "e">>
      [] s = "float"  -> <<"f", "l", "o", "a", "t">>
      [] s = "string" -> <<"s", "t", "r", "i", "n", "g">>
      [] s = "varchar" -> <<"v", "a", "r", "c", "h", "a", "r">>

\* str.lower() on one character
LowerChar(ch) ==
    CASE ch = "A" -> "a" [] ch = "B" -> "b" [] ch = "D" -> "d"
      [] ch = "E" -> "e" [] ch = "G" -> "g" [] ch = "I" -> "i"
      [] ch = "N" -> "n" [] ch = "R" -> "r" [] ch = "S" -> "s"
      [] ch = "T" -> "t" [] OTHER -> ch

\* str.lower()
Lower(cs) == [i \in DOMAIN cs |-> LowerChar(cs[i])]

\* the Python test  `sub in s`  on spellings
Contains(sub, s) ==
    \E i \in 0..(Len(s) - Len(sub)) :
        \A j \in 1..Len(sub) : s[i + j] = sub[j]

----------------------------------------------------------------------------
(* The external service: what Unity Catalog and the SQL warehouse hold.     *)
(* The tree of catalogs, schemas and tables is fixed; the column list of    *)
(* one table and the data behind the statistics (ext.ver) change.           *)

ExtCatalogs == <<"c1", "c2">>

ExtSchemas(c) ==
    CASE c = "c1" -> <<"s1", "s2">>
      [] c = "c2" -> <<"s1">>
      [] OTHER    -> <<>>

ExtTables(c, s) ==
    CASE c = "c1" /\ s = "s1" -> <<"Ab", "b", "c">>
      [] c = "c1" /\ s = "s2" -> <<"d">>
      [] c = "c2" /\ s = "s1" -> <<"Ab">>
      [] OTHER                -> <<>>

\* the table whose column list changes upstream
TabA == <<"c1", "s1", "Ab">>

TabB == <<"c1", "s1", "b">>

TabC == <<"c1", "s1", "c">>

TabD == <<"c1", "s2", "d">>

TabE == <<"c2", "s1", "Ab">>

AllTabs == {TabA, TabB, TabC, TabD, TabE}

\* the column lists table TabA can have upstream
ColLists == {<<"x", "y">>, <<"y">>, <<"y", "x">>}

ExtColumns(e, t) ==
    CASE t = TabA -> e.acols
      [] t = TabB -> <<"x">>
      [] t = TabC -> <<"x">>
      [] t = TabD -> <<>>
      [] t = TabE -> <<"y">>

\* table.comment of the catalog entry
ExtComment(t) ==
    CASE t = TabB -> None
      [] t = TabC -> Some("xAB")
      [] t = TabD -> Some("")
      [] OTHER    -> None

ExtTableType(t) == IF t = TabD THEN "VIEW" ELSE "TABLE"

ExtOwner(e, t) == IF e.ver = 0 THEN "alice" ELSE "bob"

ExtRowCount(e, t) == 10 + e.ver

ExtSizeBytes(e, t) == 100 + e.ver

\* column.type_name of the catalog entry
ExtTypeName(col) == IF col = "x" THEN "INT" ELSE "STRING"

\* column.type_text of the catalog entry
ExtTypeText(col) == IF col = "x" THEN "int" ELSE "string"

ExtColComment(col) == IF col = "x" THEN None ELSE Some("note")

\* the answers of the profiling queries
ExtNullCount(e, t, col) == 1 + e.ver

ExtDistinctCount(e, t, col) == 3 + e.ver

ExtMin(e, t, col) == IF e.ver = 0 THEN "m0" ELSE "m1"

ExtMax(e, t, col) == IF e.ver = 0 THEN "M0" ELSE "M1"

ExtAvgLength(e, t, col) == 5 + e.ver

ExtSamples(e, t, col) == IF e.ver = 0 THEN <<"v0">> ELSE <<"v1">>

----------------------------------------------------------------------------
(* DatabricksService.  f is the set of fault points of the invocation.      *)

\* databricks_service.py:114-135
discover_catalogs(f) ==
    IF <<"catalogs">> \in f
    THEN [raised |-> TRUE, val |-> <<>>]
    ELSE [raised |-> FALSE,
          val |-> [i \in DOMAIN ExtCatalogs |-> [name |-> ExtCatalogs[i]]]]

\* databricks_service.py:137-159
discover_schemas(f, c) ==
    IF <<"schemas", c>> \in f
    THEN [raised |-> TRUE, val |-> <<>>]
    ELSE [raised |-> FALSE,
          val |-> [i \in DOMAIN ExtSchemas(c) |->
                     [name |-> ExtSchemas(c)[i], catalog_name |-> c]]]

\* a get_table_info with one handler for both queries: a failure of
\* DESCRIBE DETAIL also discards the row count
GetTableInfoOneHandler(e, f, t) ==
    IF <<"rowcount", t>> \in f \/ <<"detail", t>> \in f
    THEN [row_count |-> 0, size_bytes |-> 0]
    ELSE [row_count |-> ExtRowCount(e, t), size_bytes |-> ExtSizeBytes(e, t)]

\* databricks_service.py:197-232.  A failure of the connection or of the
\* row-count query gives zeros; a failure of DESCRIBE DETAIL alone gives
\* size_bytes 0 and keeps the row count.
get_table_info(e, f, t) ==
    IF <<"rowcount", t>> \in f
    THEN [row_count |-> 0, size_bytes |-> 0]
    ELSE IF <<"detail", t>> \in f
         THEN [row_count |-> ExtRowCount(e, t), size_bytes |-> 0]
         ELSE [row_count |-> ExtRowCount(e, t),
               size_bytes |-> ExtSizeBytes(e, t)]

\* databricks_service.py:175-188: one entry of the table listing
TableData(e, f, t) ==
    Update([name               |-> t[3],
            catalog_name       |-> t[1],
            schema_name        |-> t[2],
            full_name          |-> t,
            table_type         |-> ExtTableType(t),
            data_source_format |-> "DELTA",
            storage_location   |-> "loc",
            owner              |-> ExtOwner(e, t),
            comment            |-> ExtComment(t)],
           get_table_info(e, f, t))

\* databricks_service.py:161-195
discover_tables(e, f, c, s) ==
    IF <<"tables", c, s>> \in f
    THEN [raised |-> TRUE, val |-> <<>>]
    ELSE [raised |-> FALSE,
          val |-> [i \in DOMAIN ExtTables(c, s) |->
                     TableData(e, f, <<c, s, ExtTables(c, s)[i]>>)]]

\* databricks_service.py:305:  'string' in t.lower() or 'varchar' in t.lower()
IsStringType(ty) ==
    \/ Contains(Chars("string"), Lower(Chars(ty)))
    \/ Contains(Chars("varchar"), Lower(Chars(ty)))

\* databricks_service.py:315
IsNumericType(ty) ==
    \E n \in {"int", "bigint", "decimal", "double", "float"} :
        Contains(Chars(n), Lower(Chars(ty)))

\* databricks_service.py:286-334: the profiling queries a column type gets,
\* in the order they are issued
Probes(ty) ==
    <<"null", "distinct">>
    \o (IF IsStringType(ty) THEN <<"avg">> ELSE <<>>)
    \o (IF IsNumericType(ty) THEN <<"minmax">> ELSE <<>>)
    \o <<"sample">>

\* what one successful profiling query adds to stats
ProbeStats(e, t, col, p) ==
    CASE p = "null"     -> [null_count |-> ExtNullCount(e, t, col)]
      [] p = "distinct" -> [distinct_count |-> ExtDistinctCount(e, t, col)]
      [] p = "avg"      -> [avg_length |-> Some(ExtAvgLength(e, t, col))]
      [] p = "minmax"   -> [min_value |-> Some(ExtMin(e, t, col)),
                            max_value |-> Some(ExtMax(e, t, col))]
      [] p = "sample"   -> [sample_values |-> ExtSamples(e, t, col)]

\* databricks_service.py:338-342 and 348-352
ZeroStats == [null_count |-> 0, distinct_count |-> 0, sample_values |-> <<>>]

\* databricks_service.py:286-342: the queries run inside one try block; the
\* first one that fails ends them, and the handler writes the zeros over
\* what was computed so far
RECURSIVE RunProbes(_, _, _, _, _, _)
RunProbes(e, f, t, col, ps, stats) ==
    IF ps = <<>> THEN stats
    ELSE IF <<"stat", t, col, Head(ps)>> \in f
         THEN Update(stats, ZeroStats)
         ELSE RunProbes(e, f, t, col, Tail(ps),
                        Update(stats, ProbeStats(e, t, col, Head(ps))))

\* databricks_service.py:275-352
get_column_statistics(e, f, t, col, ty) ==
    IF <<"stat", t, col, "conn">> \in f
    THEN ZeroStats
    ELSE IF col \notin SeqToSet(ExtColumns(e, t))
    \* the first query names a column the table does not have, and fails
    THEN Update(<<>>, ZeroStats)
    ELSE RunProbes(e, f, t, col, Probes(ty), <<>>)

\* a column listing that numbers the columns from 0
ColumnDataZeroBased(e, f, t, i) ==
    LET col == ExtColumns(e, t)[i]
    IN  Update([name            |-> col,
                position        |-> i - 1,
                type_name       |-> ExtTypeName(col),
                type_text       |-> ExtTypeText(col),
                nullable        |-> TRUE,
                comment         |-> ExtColComment(col),
                partition_index |-> None],
               get_column_statistics(e, f, t, col, ExtTypeName(col)))

\* databricks_service.py:249-266: one entry of the column listing
ColumnData(e, f, t, i) ==
    LET col == ExtColumns(e, t)[i]
    IN  Update([name            |-> col,
                position        |-> i,
                type_name       |-> ExtTypeName(col),
                type_text       |-> ExtTypeText(col),
                nullable        |-> TRUE,
                comment         |-> ExtColComment(col),
                partition_index |-> None],
               get_column_statistics(e, f, t, col, ExtTypeName(col)))

\* databricks_service.py:234-273
discover_columns(e, f, t) ==
    IF <<"columns", t>> \in f
    THEN [raised |-> TRUE, val |-> <<>>]
    ELSE [raised |-> FALSE,
          val |-> [i \in DOMAIN ExtColumns(e, t) |-> ColumnData(e, f, t, i)]]

----------------------------------------------------------------------------
(* The local store (models.py).  A row carries its primary key id; the      *)
(* unique constraints of the schema are not built into the representation.  *)

EmptyStore == [tables |-> {}, columns |-> {}]

\* the AutoField primary key of a new row
NewId(rows) ==
    IF rows = {} THEN 1
    ELSE 1 + (CHOOSE m \in {r.id : r \in rows} : \A r \in rows : r.id <= m)

\* f"{catalog_name}.{schema_name}.{table_name}" of a stored row
FullName(table) == <<table.catalog_name, table.schema_name, table.table_name>>

\* table.columns: the reverse side of SourceColumn.table
ColumnsOf(st, table) == {c \in st.columns : c.table = table.id}

\* Model.save() of an existing row: every field of the instance is written
SaveRow(rows, row) == {r \in rows : r.id # row.id} \cup {row}

\* discovery_service.py:190-205: the row SourceTable.objects.get_or_create
\* inserts when no row has the full_table_name
NewTable(st, user, td, clock) ==
    [id              |-> NewId(st.tables),
     full_table_name |-> td.full_name,
     catalog_name    |-> td.catalog_name,
     schema_name     |-> td.schema_name,
     table_name      |-> td.name,
     table_type      |-> Get(td, "table_type", "TABLE"),
     table_format    |-> Get(td, "data_source_format", ""),
     location        |-> Get(td, "storage_location", ""),
     owner           |-> Get(td, "owner", ""),
     source_owners   |-> None,
     row_count       |-> Get(td, "row_count", 0),
     size_bytes      |-> Get(td, "size_bytes", 0),
     discovered_by   |-> user,
     discovered_at   |-> clock,
     last_updated    |-> clock,
     last_analyzed   |-> None,
     is_active       |-> TRUE,
     analysis_status |-> "pending"]

\* an update that also puts the fields the source does not report back to
\* what a new row gets
UpdatedTableReset(table, td, clock) ==
    [table EXCEPT
        !.table_type    = Get(td, "table_type", table.table_type),
        !.table_format  = Get(td, "data_source_format", table.table_format),
        !.location      = Get(td, "storage_location", table.location),
        !.owner         = Get(td, "owner", table.owner),
        !.row_count     = Get(td, "row_count", table.row_count),
        !.size_bytes    = Get(td, "size_bytes", table.size_bytes),
        !.source_owners = None,
        !.is_active     = TRUE,
        !.last_updated  = clock]

\* discovery_service.py:212-218
UpdatedTable(table, td, clock) ==
    [table EXCEPT
        !.table_type   = Get(td, "table_type", table.table_type),
        !.table_format = Get(td, "data_source_format", table.table_format),
        !.location     = Get(td, "storage_location", table.location),
        !.owner        = Get(td, "owner", table.owner),
        !.row_count    = Get(td, "row_count", table.row_count),
        !.size_bytes   = Get(td, "size_bytes", table.size_bytes),
        !.last_updated = clock]

\* discovery_service.py:267-285: the row SourceColumn.objects.get_or_create
\* inserts when the table has no column of that name
NewColumn(st, table, cd, clock) ==
    [id                   |-> NewId(st.columns),
     table                |-> table.id,
     column_name          |-> cd.name,
     column_position      |-> cd.position,
     data_type            |-> cd.type_name,
     physical_data_type   |-> Get(cd, "type_text", cd.type_name),
     is_nullable          |-> Get(cd, "nullable", TRUE),
     is_primary_key       |-> FALSE,
     is_foreign_key       |-> FALSE,
     null_count           |-> Get(cd, "null_count", 0),
     distinct_count       |-> Get(cd, "distinct_count", 0),
     min_value            |-> Get(cd, "min_value", None),
     max_value            |-> Get(cd, "max_value", None),
     avg_length           |-> Get(cd, "avg_length", None),
     column_comment       |-> Get(cd, "comment", Some("")),
     business_description |-> None,
     sample_values        |-> Get(cd, "sample_values", <<>>),
     discovered_at        |-> clock,
     last_updated         |-> clock]

\* discovery_service.py:291-302
UpdatedColumn(column, cd, clock) ==
    [column EXCEPT
        !.column_position    = cd.position,
        !.data_type          = cd.type_name,
        !.physical_data_type = Get(cd, "type_text", cd.type_name),
        !.is_nullable        = Get(cd, "nullable", TRUE),
        !.null_count         = Get(cd, "null_count", column.null_count),
        !.distinct_count     = Get(cd, "distinct_count", column.distinct_count),
        !.min_value          = Get(cd, "min_value", column.min_value),
        !.max_value          = Get(cd, "max_value", column.max_value),
        !.avg_length         = Get(cd, "avg_length", column.avg_length),
        !.column_comment     = Get(cd, "comment", column.column_comment),
        !.sample_values      = Get(cd, "sample_values", column.sample_values),
        !.last_updated       = clock]

\* a call without @transaction.atomic: the writes made before the failure
\* stay
NotAtomic(pre, r) == r

\* a rollback that undoes the writes to the table rows and leaves the
\* column rows written before the failure
AtomicTablesOnly(pre, r) ==
    IF r.raised THEN [r EXCEPT !.st = [@ EXCEPT !.tables = pre.tables]] ELSE r

\* @transaction.atomic: when the wrapped call raises, its writes are undone
Atomic(pre, r) == IF r.raised THEN [r EXCEPT !.st = pre] ELSE r

----------------------------------------------------------------------------
(* DiscoveryService: reconciliation of one table.                           *)
(* The result r of a call is handed on as an argument to the operator that  *)
(* models the code after the call.                                          *)

NoColumnStats == [columns_created |-> 0, columns_updated |-> 0]

\* a reconciliation that replaces a stored column the source still reports
\* by a newly inserted row
RecreateColumn(st, f, table, cd, stats, clock) ==
    IF <<"save_column", FullName(table), cd.name>> \in f
    THEN [raised |-> TRUE, st |-> st, stats |-> stats,
          cause |-> "PersistenceError"]
    ELSE [raised |-> FALSE,
          st |-> [st EXCEPT !.columns =
                     {c \in @ : ~(c.table = table.id /\ c.column_name = cd.name)}
                         \cup {NewColumn(st, table, cd, clock)}],
          stats |-> IF \E c \in ColumnsOf(st, table) : c.column_name = cd.name
                    THEN [stats EXCEPT !.columns_updated = @ + 1]
                    ELSE [stats EXCEPT !.columns_created = @ + 1],
          cause |-> ""]

\* discovery_service.py:267-304: get_or_create of one discovered column,
\* then the update of a column that was already stored
SyncColumn(st, f, table, cd, stats, clock) ==
    LET hit == {c \in ColumnsOf(st, table) : c.column_name = cd.name}
    IN  IF <<"save_column", FullName(table), cd.name>> \in f
        THEN [raised |-> TRUE, st |-> st, stats |-> stats,
              cause |-> "PersistenceError"]
        ELSE IF hit = {}
        THEN [raised |-> FALSE,
              st |-> [st EXCEPT !.columns =
                         @ \cup {NewColumn(st, table, cd, clock)}],
              stats |-> [stats EXCEPT !.columns_created = @ + 1],
              cause |-> ""]
        ELSE [raised |-> FALSE,
              st |-> [st EXCEPT !.columns =
                         SaveRow(@, UpdatedColumn(CHOOSE c \in hit : TRUE,
                                                  cd, clock))],
              stats |-> [stats EXCEPT !.columns_updated = @ + 1],
              cause |-> ""]

\* discovery_service.py:262-304: the loop over columns_data, from entry i
\* on; r is the outcome of entry i - 1
RECURSIVE SyncColumnsFrom(_, _, _, _, _, _)
SyncColumnsFrom(f, table, cdata, i, clock, r) ==
    IF r.raised \/ i > Len(cdata) THEN r
    ELSE SyncColumnsFrom(f, table, cdata, i + 1, clock,
             SyncColumn(r.st, f, table, cdata[i], r.stats, clock))

\* a reconciliation that drops the columns the source no longer reports
DeleteRemoved(st, table, removed, clock) ==
    [st EXCEPT !.columns =
        {c \in @ : ~(c.table = table.id /\ c.column_name \in removed)}]

\* a reconciliation that also clears what it knew of the columns the
\* source no longer reports
ResetRemoved(st, table, removed, clock) ==
    [st EXCEPT !.columns =
        {IF c.table = table.id /\ c.column_name \in removed
         THEN [c EXCEPT !.column_position = 0, !.null_count = 0,
                        !.distinct_count = 0, !.sample_values = <<>>,
                        !.last_updated = clock]
         ELSE c : c \in @}]

\* discovery_service.py:306-313: the columns stored but not discovered get
\* a new last_updated and nothing else
TouchRemoved(st, table, removed, clock) ==
    IF removed = {} THEN st
    ELSE [st EXCEPT !.columns =
             {IF c.table = table.id /\ c.column_name \in removed
              THEN [c EXCEPT !.last_updated = clock] ELSE c : c \in @}]

\* discovery_service.py:256-264 and 306-315: existing_columns are the names
\* stored at entry (in st), discovered_columns those of columns_data
MarkRemoved(st, table, cdata, clock, r) ==
    IF r.raised THEN r
    ELSE [r EXCEPT !.st =
             TouchRemoved(r.st, table,
                 {c.column_name : c \in ColumnsOf(st, table)}
                     \ {cdata[i].name : i \in DOMAIN cdata},
                 clock)]

\* discovery_service.py:256-319: what follows discover_columns
ReconcileColumns(st, f, table, columns_data, clock) ==
    IF columns_data.raised
    THEN [raised |-> TRUE, st |-> st, stats |-> NoColumnStats,
          cause |-> "Failed to discover columns"]
    ELSE MarkRemoved(st, table, columns_data.val, clock,
             SyncColumnsFrom(f, table, columns_data.val, 1, clock,
                 [raised |-> FALSE, st |-> st, stats |-> NoColumnStats,
                  cause |-> ""]))

\* discovery_service.py:238-319
sync_table_columns(st, e, f, table, clock) ==
    Atomic(st, ReconcileColumns(st, f, table,
                   discover_columns(e, f, FullName(table)), clock))

NoTableStats == [created |-> FALSE, columns_created |-> 0, columns_updated |-> 0]

\* a create() in place of get_or_create(): the stored rows are not looked up
InsertTable(st, user, td, clock) ==
    [table |-> NewTable(st, user, td, clock), created |-> TRUE,
     st |-> [st EXCEPT !.tables = @ \cup {NewTable(st, user, td, clock)}]]

\* discovery_service.py:190-219: get_or_create by full_table_name, and the
\* update of a table that was already stored
UpsertTable(st, user, td, clock) ==
    LET hit == {t \in st.tables : t.full_table_name = td.full_name}
        table == IF hit = {} THEN NewTable(st, user, td, clock)
                 ELSE UpdatedTable(CHOOSE t \in hit : TRUE, td, clock)
    IN  [table |-> table, created |-> (hit = {}),
         st |-> [st EXCEPT !.tables = SaveRow(@, table)]]

\* discovery_service.py:226-229
CompletedTable(table, clock) ==
    [table EXCEPT !.analysis_status = "completed",
                  !.last_analyzed = Some(clock),
                  !.last_updated = clock]

\* a sync_table that reports every table it reconciles as created
FinishTableAsCreated(f, td, u, cs, clock) ==
    IF cs.raised \/ <<"save_final", td.full_name>> \in f
    THEN [raised |-> TRUE, st |-> cs.st, stats |-> NoTableStats,
          cause |-> IF cs.raised THEN cs.cause ELSE "PersistenceError"]
    ELSE [raised |-> FALSE,
          st |-> [cs.st EXCEPT !.tables =
                     SaveRow(@, CompletedTable(u.table, clock))],
          stats |-> [created |-> TRUE,
                     columns_created |-> cs.stats.columns_created,
                     columns_updated |-> cs.stats.columns_updated],
          cause |-> ""]

\* discovery_service.py:222-236: what follows sync_table_columns; u is the
\* upsert of the table, cs the outcome of sync_table_columns
FinishTable(f, td, u, cs, clock) ==
    IF cs.raised
    THEN [raised |-> TRUE, st |-> cs.st, stats |-> NoTableStats,
          cause |-> cs.cause]
    ELSE IF <<"save_final", td.full_name>> \in f
    THEN [raised |-> TRUE, st |-> cs.st, stats |-> NoTableStats,
          cause |-> "PersistenceError"]
    ELSE [raised |-> FALSE,
          st |-> [cs.st EXCEPT !.tables =
                     SaveRow(@, CompletedTable(u.table, clock))],
          stats |-> [created |-> u.created,
                     columns_created |-> cs.stats.columns_created,
                     columns_updated |-> cs.stats.columns_updated],
          cause |-> ""]

\* discovery_service.py:207-236: what follows get_or_create
SyncUpserted(e, f, td, u, clock) ==
    FinishTable(f, td, u, sync_table_columns(u.st, e, f, u.table, clock), clock)

\* discovery_service.py:175-236
sync_table(st, e, f, user, td, clock) ==
    Atomic(st,
        IF <<"save_table", td.full_name>> \in f
        THEN [raised |-> TRUE, st |-> st, stats |-> NoTableStats,
              cause |-> "PersistenceError"]
        ELSE SyncUpserted(e, f, td, UpsertTable(st, user, td, clock), clock))

----------------------------------------------------------------------------
(* DiscoveryService: the sweep.  An entry of an errors list is the tuple    *)
(* of the message's fixed text, the scope it names and, for a table, the    *)
(* exception's text.  A walk state w is [raised, st, stats].                *)

\* the test  `catalogs is None`: an empty list is taken as it is
CatalogsIsNone(catalogs) == catalogs = None

\* the Python test  `not catalogs`  on an Optional[List[str]]
NotCatalogs(catalogs) == catalogs = None \/ catalogs[1] = <<>>

\* discovery_service.py:136-143
ZeroSchemaStats ==
    [tables_discovered |-> 0, tables_created |-> 0, tables_updated |-> 0,
     columns_created |-> 0, columns_updated |-> 0, errors |-> <<>>]

\* a loop over the tables without the try/except around sync_table
CountTableNoCatch(stats, td, r) ==
    [raised |-> r.raised, st |-> r.st,
     stats |-> IF r.raised THEN stats
               ELSE [stats EXCEPT
                   !.tables_discovered = @ + 1,
                   !.tables_created = IF r.stats.created THEN @ + 1 ELSE @,
                   !.tables_updated = IF r.stats.created THEN @ ELSE @ + 1,
                   !.columns_created = @ + r.stats.columns_created,
                   !.columns_updated = @ + r.stats.columns_updated]]

\* a loop that counts a table as discovered before it calls sync_table
CountTableDiscoveredFirst(stats, td, r) ==
    IF r.raised
    THEN [raised |-> FALSE, st |-> r.st,
          stats |-> [stats EXCEPT
              !.tables_discovered = @ + 1,
              !.errors = Append(@,
                  <<"Failed to sync table", Get(td, "full_name", "unknown"),
                    r.cause>>)]]
    ELSE [raised |-> FALSE, st |-> r.st,
          stats |-> [stats EXCEPT
              !.tables_discovered = @ + 1,
              !.tables_created = IF r.stats.created THEN @ + 1 ELSE @,
              !.tables_updated = IF r.stats.created THEN @ ELSE @ + 1,
              !.columns_created = @ + r.stats.columns_created,
              !.columns_updated = @ + r.stats.columns_updated]]

\* discovery_service.py:151-165: what follows sync_table in the loop over
\* the tables; r is its outcome
CountTable(stats, td, r) ==
    IF r.raised
    THEN [raised |-> FALSE, st |-> r.st,
          stats |-> [stats EXCEPT !.errors = Append(@,
              <<"Failed to sync table", Get(td, "full_name", "unknown"),
                r.cause>>)]]
    ELSE [raised |-> FALSE, st |-> r.st,
          stats |-> [stats EXCEPT
              !.tables_discovered = @ + 1,
              !.tables_created = IF r.stats.created THEN @ + 1 ELSE @,
              !.tables_updated = IF r.stats.created THEN @ ELSE @ + 1,
              !.columns_created = @ + r.stats.columns_created,
              !.columns_updated = @ + r.stats.columns_updated]]

\* discovery_service.py:149-167: the loop over the tables, from entry i on
RECURSIVE SyncTablesFrom(_, _, _, _, _, _, _)
\* a loop that calls sync_table a second time for a table whose sync failed
SyncTablesRetry(e, f, user, tables, i, clock, w) ==
    IF w.raised \/ i > Len(tables) THEN w
    ELSE IF sync_table(w.st, e, f, user, tables[i], clock).raised
    THEN SyncTablesFrom(e, f, user, tables, i + 1, clock,
             CountTable(
                 CountTable(w.stats, tables[i],
                     sync_table(w.st, e, f, user, tables[i], clock)).stats,
                 tables[i],
                 sync_table(w.st, e, f, user, tables[i], clock)))
    ELSE SyncTablesFrom(e, f, user, tables, i + 1, clock,
             CountTable(w.stats, tables[i],
                 sync_table(w.st, e, f, user, tables[i], clock)))
SyncTablesFrom(e, f, user, tables, i, clock, w) ==
    IF w.raised \/ i > Len(tables) THEN w
    ELSE SyncTablesFrom(e, f, user, tables, i + 1, clock,
             CountTable(w.stats, tables[i],
                 sync_table(w.st, e, f, user, tables[i], clock)))

\* discovery_service.py:145-173: what follows discover_tables
WalkTables(st, e, f, user, c, s, clock, tables) ==
    IF tables.raised
    THEN [raised |-> FALSE, st |-> st,
          stats |-> [ZeroSchemaStats EXCEPT !.errors =
                        <<<<"Failed to discover tables in", c, s>>>>]]
    ELSE SyncTablesFrom(e, f, user, tables.val, 1, clock,
             [raised |-> FALSE, st |-> st, stats |-> ZeroSchemaStats])

\* discovery_service.py:132-173
discover_schema_tables(st, e, f, user, c, s, clock) ==
    WalkTables(st, e, f, user, c, s, clock, discover_tables(e, f, c, s))

\* discovery_service.py:91-99
ZeroCatalogStats ==
    [schemas_processed |-> 0, tables_discovered |-> 0, tables_created |-> 0,
     tables_updated |-> 0, columns_created |-> 0, columns_updated |-> 0,
     errors |-> <<>>]

\* a loop over the schemas that counts a schema as processed only when its
\* walk left no error
CountSchemaIfClean(stats, c, schema, r) ==
    IF r.raised
    THEN [raised |-> FALSE, st |-> r.st,
          stats |-> [stats EXCEPT !.errors = Append(@,
              <<"Failed to process schema", c, schema.name>>)]]
    ELSE [raised |-> FALSE, st |-> r.st,
          stats |-> [stats EXCEPT
              !.tables_discovered = @ + r.stats.tables_discovered,
              !.tables_created = @ + r.stats.tables_created,
              !.tables_updated = @ + r.stats.tables_updated,
              !.columns_created = @ + r.stats.columns_created,
              !.columns_updated = @ + r.stats.columns_updated,
              !.errors = @ \o r.stats.errors,
              !.schemas_processed =
                  IF r.stats.errors = <<>> THEN @ + 1 ELSE @]]

\* discovery_service.py:107-122: what follows discover_schema_tables in the
\* loop over the schemas; r is its outcome
CountSchema(stats, c, schema, r) ==
    IF r.raised
    THEN [raised |-> FALSE, st |-> r.st,
          stats |-> [stats EXCEPT !.errors = Append(@,
              <<"Failed to process schema", c, schema.name>>)]]
    ELSE [raised |-> FALSE, st |-> r.st,
          stats |-> [stats EXCEPT
              !.tables_discovered = @ + r.stats.tables_discovered,
              !.tables_created = @ + r.stats.tables_created,
              !.tables_updated = @ + r.stats.tables_updated,
              !.columns_created = @ + r.stats.columns_created,
              !.columns_updated = @ + r.stats.columns_updated,
              !.errors = @ \o r.stats.errors,
              !.schemas_processed = @ + 1]]

\* discovery_service.py:105-122: the loop over the schemas, from entry i on
RECURSIVE WalkSchemasFrom(_, _, _, _, _, _, _, _)
\* a loop over the schemas that ends at the first schema with an error
WalkSchemasUntilError(e, f, user, c, schemas, i, clock, w) ==
    IF w.raised \/ i > Len(schemas) \/ w.stats.errors # <<>> THEN w
    ELSE WalkSchemasFrom(e, f, user, c, schemas, i + 1, clock,
             CountSchema(w.stats, c, schemas[i],
                 discover_schema_tables(w.st, e, f, user, c, schemas[i].name,
                                        clock)))

WalkSchemasFrom(e, f, user, c, schemas, i, clock, w) ==
    IF w.raised \/ i > Len(schemas) THEN w
    ELSE WalkSchemasFrom(e, f, user, c, schemas, i + 1, clock,
             CountSchema(w.stats, c, schemas[i],
                 discover_schema_tables(w.st, e, f, user, c, schemas[i].name,
                                        clock)))

\* discovery_service.py:101-130: what follows discover_schemas
WalkSchemas(st, e, f, user, c, clock, schemas) ==
    IF schemas.raised
    THEN [raised |-> FALSE, st |-> st,
          stats |-> [ZeroCatalogStats EXCEPT !.errors =
                        <<<<"Failed to discover schemas in catalog", c>>>>]]
    ELSE WalkSchemasFrom(e, f, user, c, schemas.val, 1, clock,
             [raised |-> FALSE, st |-> st, stats |-> ZeroCatalogStats])

\* discovery_service.py:87-130
discover_catalog_tables(st, e, f, user, c, clock) ==
    WalkSchemas(st, e, f, user, c, clock, discover_schemas(f, c))

\* counters kept on the shared service object: a sweep goes on from the
\* report of the sweep before it
CarriedDiscoveryStats ==
    IF last.op = "sweep" THEN last.result
    ELSE [catalogs_processed |-> 0, schemas_processed |-> 0,
          tables_discovered |-> 0, tables_created |-> 0, tables_updated |-> 0,
          columns_created |-> 0, columns_updated |-> 0, errors |-> <<>>]

\* discovery_service.py:37-46
ZeroDiscoveryStats ==
    [catalogs_processed |-> 0, schemas_processed |-> 0,
     tables_discovered |-> 0, tables_created |-> 0, tables_updated |-> 0,
     columns_created |-> 0, columns_updated |-> 0, errors |-> <<>>]

\* an aggregation that assigns the catalog's counts instead of adding them
CountCatalogAssign(stats, c, r) ==
    IF r.raised
    THEN [raised |-> FALSE, st |-> r.st,
          stats |-> [stats EXCEPT !.errors = Append(@,
              <<"Failed to process catalog", c>>)]]
    ELSE [raised |-> FALSE, st |-> r.st,
          stats |-> [stats EXCEPT
              !.schemas_processed = r.stats.schemas_processed,
              !.tables_discovered = r.stats.tables_discovered,
              !.tables_created = r.stats.tables_created,
              !.tables_updated = r.stats.tables_updated,
              !.columns_created = r.stats.columns_created,
              !.columns_updated = r.stats.columns_updated,
              !.errors = @ \o r.stats.errors,
              !.catalogs_processed = @ + 1]]

\* discovery_service.py:61-77: what follows discover_catalog_tables in the
\* loop over the catalogs; r is its outcome
CountCatalog(stats, c, r) ==
    IF r.raised
    THEN [raised |-> FALSE, st |-> r.st,
          stats |-> [stats EXCEPT !.errors = Append(@,
              <<"Failed to process catalog", c>>)]]
    ELSE [raised |-> FALSE, st |-> r.st,
          stats |-> [stats EXCEPT
              !.schemas_processed = @ + r.stats.schemas_processed,
              !.tables_discovered = @ + r.stats.tables_discovered,
              !.tables_created = @ + r.stats.tables_created,
              !.tables_updated = @ + r.stats.tables_updated,
              !.columns_created = @ + r.stats.columns_created,
              !.columns_updated = @ + r.stats.columns_updated,
              !.errors = @ \o r.stats.errors,
              !.catalogs_processed = @ + 1]]

\* discovery_service.py:59-77: the loop over the catalogs, from entry i on
RECURSIVE WalkCatalogsFrom(_, _, _, _, _, _, _)
WalkCatalogsFrom(e, f, user, catalogs, i, clock, w) ==
    IF w.raised \/ i > Len(catalogs) THEN w
    ELSE WalkCatalogsFrom(e, f, user, catalogs, i + 1, clock,
             CountCatalog(w.stats, catalogs[i],
                 discover_catalog_tables(w.st, e, f, user, catalogs[i], clock)))

\* discovery_service.py:52 and databricks_service.py:389
CatalogNames(catalog_list) ==
    IF catalog_list.raised THEN catalog_list
    ELSE [raised |-> FALSE,
          val |-> [i \in DOMAIN catalog_list.val |-> catalog_list.val[i].name]]

\* discovery_service.py:48-56 and databricks_service.py:387-389: the
\* catalogs to process
CatalogsToProcess(f, catalogs) ==
    IF NotCatalogs(catalogs)
    THEN CatalogNames(discover_catalogs(f))
    ELSE [raised |-> FALSE, val |-> catalogs[1]]

\* a sweep that records the failure of the catalog listing and then walks
\* the catalogs it knows of
WalkCatalogsDespiteFailure(st, e, f, user, clock, cl) ==
    IF cl.raised
    THEN WalkCatalogsFrom(e, f, user, ExtCatalogs, 1, clock,
             [raised |-> FALSE, st |-> st,
              stats |-> [ZeroDiscoveryStats EXCEPT !.errors =
                            <<<<"Failed to discover catalogs">>>>]])
    ELSE WalkCatalogsFrom(e, f, user, cl.val, 1, clock,
             [raised |-> FALSE, st |-> st, stats |-> ZeroDiscoveryStats])

\* discovery_service.py:48-85: what follows the choice of the catalogs
WalkCatalogs(st, e, f, user, clock, cl) ==
    IF cl.raised
    THEN [raised |-> FALSE, st |-> st,
          stats |-> [ZeroDiscoveryStats EXCEPT !.errors =
                        <<<<"Failed to discover catalogs">>>>]]
    ELSE WalkCatalogsFrom(e, f, user, cl.val, 1, clock,
             [raised |-> FALSE, st |-> st, stats |-> ZeroDiscoveryStats])

\* discovery_service.py:32-85
discover_all_tables(st, e, f, user, catalogs, clock) ==
    WalkCatalogs(st, e, f, user, clock, CatalogsToProcess(f, catalogs))

----------------------------------------------------------------------------
(* The search.                                                              *)

\* bool(s) of an Optional[str]
Truthy(opt) == opt # None /\ Chars(opt[1]) # <<>>

\* a comparison of the spellings as they are, without lower()
MatchesCaseSensitive(search_term, table) ==
    \/ Contains(Chars(search_term), Chars(table.name))
    \/ /\ Truthy(Get(table, "comment", None))
       /\ Contains(Chars(search_term), Chars(table.comment[1]))

\* databricks_service.py:399-400
Matches(search_term, table) ==
    \/ Contains(Lower(Chars(search_term)), Lower(Chars(table.name)))
    \/ /\ Truthy(Get(table, "comment", None))
       /\ Contains(Lower(Chars(search_term)), Lower(Chars(table.comment[1])))

\* databricks_service.py:395-404: what follows discover_tables; a schema
\* whose tables cannot be listed is logged and skipped
AddMatching(search_term, matching_tables, tables) ==
    IF tables.raised THEN matching_tables
    ELSE matching_tables
            \o SelectSeq(tables.val, LAMBDA table : Matches(search_term, table))

\* databricks_service.py:394-404: the loop over the schemas of one catalog
RECURSIVE SearchSchemasFrom(_, _, _, _, _, _, _)
SearchSchemasFrom(e, f, search_term, c, schemas, i, matching_tables) ==
    IF i > Len(schemas) THEN matching_tables
    ELSE SearchSchemasFrom(e, f, search_term, c, schemas, i + 1,
             AddMatching(search_term, matching_tables,
                         discover_tables(e, f, c, schemas[i].name)))

\* databricks_service.py:392-407: what follows discover_schemas; a catalog
\* whose schemas cannot be listed is logged and skipped
SearchSchemas(e, f, search_term, c, matching_tables, schemas) ==
    IF schemas.raised THEN matching_tables
    ELSE SearchSchemasFrom(e, f, search_term, c, schemas.val, 1,
                           matching_tables)

\* databricks_service.py:391-407: the loop over the catalogs
RECURSIVE SearchCatalogsFrom(_, _, _, _, _, _)
\* a loop over the catalogs that ends at the first catalog whose schemas
\* cannot be listed
SearchCatalogsUntilError(e, f, search_term, catalogs, i, matching_tables) ==
    IF i > Len(catalogs) \/ discover_schemas(f, catalogs[i]).raised
    THEN matching_tables
    ELSE SearchCatalogsFrom(e, f, search_term, catalogs, i + 1,
             SearchSchemas(e, f, search_term, catalogs[i], matching_tables,
                           discover_schemas(f, catalogs[i])))

SearchCatalogsFrom(e, f, search_term, catalogs, i, matching_tables) ==
    IF i > Len(catalogs) THEN matching_tables
    ELSE SearchCatalogsFrom(e, f, search_term, catalogs, i + 1,
             SearchSchemas(e, f, search_term, catalogs[i], matching_tables,
                           discover_schemas(f, catalogs[i])))

\* databricks_service.py:387-414: what follows the choice of the catalogs
SearchIn(e, f, search_term, cl) ==
    IF cl.raised
    THEN [raised |-> TRUE, val |-> <<>>]
    ELSE [raised |-> FALSE,
          val |-> SearchCatalogsFrom(e, f, search_term, cl.val, 1, <<>>)]

\* databricks_service.py:378-414
search_tables(e, f, search_term, catalogs) ==
    SearchIn(e, f, search_term, CatalogsToProcess(f, catalogs))

\* discovery_service.py:382-390
ZeroSearchStats(matching_tables) ==
    [tables_found |-> Len(matching_tables), tables_synced |-> 0,
     tables_created |-> 0, tables_updated |-> 0,
     columns_created |-> 0, columns_updated |-> 0, errors |-> <<>>]

\* a failure report that carries the errors list alone
FailedSearchErrorsOnly == [errors |-> <<<<"Search and sync failed">>>>]

\* discovery_service.py:415-423
FailedSearchStats ==
    [tables_found |-> 0, tables_synced |-> 0,
     tables_created |-> 0, tables_updated |-> 0,
     columns_created |-> 0, columns_updated |-> 0,
     errors |-> <<<<"Search and sync failed">>>>]

\* discovery_service.py:395-409: what follows sync_table in the loop over
\* the matches; r is its outcome
CountFound(stats, td, r) ==
    IF r.raised
    THEN [raised |-> FALSE, st |-> r.st,
          stats |-> [stats EXCEPT !.errors = Append(@,
              <<"Failed to sync table", Get(td, "full_name", "unknown"),
                r.cause>>)]]
    ELSE [raised |-> FALSE, st |-> r.st,
          stats |-> [stats EXCEPT
              !.tables_synced = @ + 1,
              !.tables_created = IF r.stats.created THEN @ + 1 ELSE @,
              !.tables_updated = IF r.stats.created THEN @ ELSE @ + 1,
              !.columns_created = @ + r.stats.columns_created,
              !.columns_updated = @ + r.stats.columns_updated]]

\* discovery_service.py:393-409: the loop over the matches, from entry i on
RECURSIVE SyncFoundFrom(_, _, _, _, _, _, _)
SyncFoundFrom(e, f, user, tables, i, clock, w) ==
    IF w.raised \/ i > Len(tables) THEN w
    ELSE SyncFoundFrom(e, f, user, tables, i + 1, clock,
             CountFound(w.stats, tables[i],
                 sync_table(w.st, e, f, user, tables[i], clock)))

\* a search without the outer try/except: a failure of search_tables leaves
\* the entry point
SyncMatchingNoCatch(st, e, f, user, clock, matching_tables) ==
    IF matching_tables.raised
    THEN [raised |-> TRUE, st |-> st, stats |-> FailedSearchStats]
    ELSE SyncFoundFrom(e, f, user, matching_tables.val, 1, clock,
             [raised |-> FALSE, st |-> st,
              stats |-> ZeroSearchStats(matching_tables.val)])

\* discovery_service.py:378-423: what follows search_tables
SyncMatching(st, e, f, user, clock, matching_tables) ==
    IF matching_tables.raised
    THEN [raised |-> FALSE, st |-> st, stats |-> FailedSearchStats]
    ELSE SyncFoundFrom(e, f, user, matching_tables.val, 1, clock,
             [raised |-> FALSE, st |-> st,
              stats |-> ZeroSearchStats(matching_tables.val)])

\* discovery_service.py:373-423
search_and_sync_tables(st, e, f, user, search_term, catalogs, clock) ==
    SyncMatching(st, e, f, user, clock,
                 search_tables(e, f, search_term, catalogs))

----------------------------------------------------------------------------
(* The statistics refresh of one stored table.                              *)

\* a refresh that leaves the analysis status as it found it
RefreshedTableKeepsStatus(table, table_info, clock) ==
    [table EXCEPT
        !.row_count     = Get(table_info, "row_count", table.row_count),
        !.size_bytes    = Get(table_info, "size_bytes", table.size_bytes),
        !.last_analyzed = Some(clock),
        !.last_updated  = clock]

\* discovery_service.py:334-337
RefreshedTable(table, table_info, clock) ==
    [table EXCEPT
        !.row_count       = Get(table_info, "row_count", table.row_count),
        !.size_bytes      = Get(table_info, "size_bytes", table.size_bytes),
        !.last_analyzed   = Some(clock),
        !.analysis_status = "completed",
        !.last_updated    = clock]

\* discovery_service.py:352-358
RefreshedColumn(column, column_stats, clock) ==
    [column EXCEPT
        !.null_count     = Get(column_stats, "null_count", column.null_count),
        !.distinct_count = Get(column_stats, "distinct_count", column.distinct_count),
        !.min_value      = Get(column_stats, "min_value", column.min_value),
        !.max_value      = Get(column_stats, "max_value", column.max_value),
        !.avg_length     = Get(column_stats, "avg_length", column.avg_length),
        !.sample_values  = Get(column_stats, "sample_values", column.sample_values),
        !.last_updated   = clock]

\* discovery_service.py:341-362: one turn of the loop over the columns; a
\* column whose save fails is logged and skipped
RefreshColumn(e, f, table, column, clock) ==
    IF <<"save_column", FullName(table), column.column_name>> \in f
    THEN column
    ELSE RefreshedColumn(column,
             get_column_statistics(e, f, FullName(table), column.column_name,
                                   column.data_type),
             clock)

\* a refresh without the try/except around each column: the first column
\* whose save fails sends the call to the outer handler
SaveRefreshedNoInnerCatch(st, e, f, table, clock, t1) ==
    IF \/ <<"save_table", FullName(table)>> \in f
       \/ \E c \in ColumnsOf(st, table) :
             <<"save_column", FullName(table), c.column_name>> \in f
    THEN [raised |-> FALSE,
          st |-> [st EXCEPT !.tables =
                     SaveRow(@, [t1 EXCEPT !.analysis_status = "failed"])],
          val |-> FALSE]
    ELSE [raised |-> FALSE,
          st |-> [tables |-> SaveRow(st.tables, t1),
                  columns |-> {IF c.table = table.id
                               THEN RefreshColumn(e, f, table, c, clock)
                               ELSE c : c \in st.columns}],
          val |-> TRUE]

\* discovery_service.py:338-371: what follows the assignments to the
\* instance; t1 is the instance with its new statistics
SaveRefreshed(st, e, f, table, clock, t1) ==
    IF <<"save_table", FullName(table)>> \in f
    THEN \* the handler marks the instance failed and saves it again
         IF <<"save_failed", FullName(table)>> \in f
         THEN [raised |-> TRUE, st |-> st, val |-> FALSE]
         ELSE [raised |-> FALSE,
               st |-> [st EXCEPT !.tables =
                          SaveRow(@, [t1 EXCEPT !.analysis_status = "failed"])],
               val |-> FALSE]
    ELSE [raised |-> FALSE,
          st |-> [tables |-> SaveRow(st.tables, t1),
                  columns |-> {IF c.table = table.id
                               THEN RefreshColumn(e, f, table, c, clock)
                               ELSE c : c \in st.columns}],
          val |-> TRUE]

\* discovery_service.py:321-371.  table is the instance the caller loaded.
refresh_table_statistics(st, e, f, table, clock) ==
    SaveRefreshed(st, e, f, table, clock,
        RefreshedTable(table, get_table_info(e, f, FullName(table)), clock))

\* views.py:118-120: the instance is marked analyzing and saved
AnalyzingTable(table, clock) ==
    [table EXCEPT !.analysis_status = "analyzing",
                  !.last_analyzed = Some(clock),
                  !.last_updated = clock]

\* views.py:136-142: the handler of the view marks the instance failed and
\* saves it; a failure of that save leaves the view
AnalyzeFailed(st, f, inst) ==
    IF <<"save_view", FullName(inst)>> \in f
    THEN [raised |-> TRUE, st |-> st,
          res |-> [http |-> 500, success |-> None, status |-> "failed"]]
    ELSE [raised |-> FALSE,
          st |-> [st EXCEPT !.tables =
                     SaveRow(@, [inst EXCEPT !.analysis_status = "failed"])],
          res |-> [http |-> 500, success |-> None, status |-> "failed"]]

\* views.py:123-135: what follows refresh_table_statistics; r is its
\* outcome and t1 the instance as the refresh left it
AnalyzeRefreshed(f, t1, r) ==
    IF r.raised
    THEN AnalyzeFailed(r.st, f, t1)
    ELSE [raised |-> FALSE, st |-> r.st,
          res |-> [http |-> IF r.val THEN 200 ELSE 500,
                   success |-> Some(r.val),
                   status |-> IF r.val THEN "completed" ELSE "failed"]]

\* views.py:113-143: the analyze action on the table the request loaded
analyze(st, e, f, table, clock) ==
    IF <<"save_analyzing", FullName(table)>> \in f
    THEN AnalyzeFailed(st, f, AnalyzingTable(table, clock))
    ELSE AnalyzeRefreshed(f,
             RefreshedTable(AnalyzingTable(table, clock),
                            get_table_info(e, f, FullName(table)), clock),
             refresh_table_statistics(
                 [st EXCEPT !.tables =
                     SaveRow(@, AnalyzingTable(table, clock))],
                 e, f, AnalyzingTable(table, clock), clock))

----------------------------------------------------------------------------
(* The inputs of the invocations.                                           *)

Users == {"u1"}

\* the catalogs argument: omitted, or a list
CatalogArgs == {None, Some(<<"c1">>)}

SearchTerms == {"aB"}

SearchCatalogArgs == {None}

\* the failures of the walk: listings and writes
WalkFaults ==
    {<<"catalogs">>,
     <<"schemas", "c1">>,
     <<"tables", "c1", "s1">>,
     <<"columns", TabA>>,
     <<"save_column", TabB, "x">>}

\* the failures of a statistics refresh: writes
RefreshFaults ==
    {<<"save_table", TabA>>,
     <<"save_column", TabA, "x">>}

\* the failures of the probes of one table
ProbeFaults ==
    {<<"rowcount", TabA>>,
     <<"detail", TabA>>,
     <<"stat", TabA, "x", "conn">>,
     <<"stat", TabA, "x", "null">>,
     <<"stat", TabA, "x", "distinct">>,
     <<"stat", TabA, "x", "minmax">>,
     <<"stat", TabA, "x", "sample">>,
     <<"stat", TabA, "y", "avg">>}

Plans(points) == {f \in SUBSET points : Cardinality(f) <= MaxFaults}

\* the columns that get a FieldMapping, as <<table, column name>>
MappedColumns == {<<TabA, "x">>}

\* what the external metadata can change to: the column list of TabA, or
\* the data behind the statistics
ExtMoves(e) ==
    ({[e EXCEPT !.acols = l] : l \in ColLists}
        \cup {[e EXCEPT !.ver = 1 - e.ver]}) \ {e}

----------------------------------------------------------------------------
(* The state machine.                                                       *)

NoOp ==
    [op |-> "none", catalogs |-> None, term |-> "", table |-> <<>>,
     f |-> {}, raised |-> FALSE, result |-> <<>>]

\* a discovery request that has not started: its arguments, its position
\* in sync_table, the rows its open transaction has written and its report
IdleJob ==
    [pc |-> "idle", catalogs |-> <<>>, f |-> {}, clock |-> 0,
     tables |-> <<>>, i |-> 1, inst |-> <<>>, created |-> FALSE,
     cstats |-> NoColumnStats, tx |-> EmptyStore,
     stats |-> ZeroDiscoveryStats]

\* an analyze request that has not started: the instance it loaded and
\* the value refresh_table_statistics returned
IdleRefresh ==
    [pc |-> "idle", inst |-> <<>>, f |-> {}, clock |-> 0, val |-> FALSE]

\* base is the store the overlapping requests started from
IdleRun ==
    [j1 |-> IdleJob, j2 |-> IdleJob, r |-> IdleRefresh, base |-> EmptyStore]

Ext0 == [acols |-> <<"x", "y">>, ver |-> 0]

Init ==
    /\ store = EmptyStore
    /\ ext = Ext0
    /\ mappings = {}
    /\ now = 0
    /\ last = NoOp
    /\ run = IdleRun

\* the step an invocation takes: its writes are in r.st, its answer in res
Invoked(op, r, res) ==
    /\ store' = r.st
    /\ now' = now + 1
    /\ last' = [op EXCEPT !.raised = r.raised, !.result = res]
    /\ UNCHANGED <<ext, mappings, run>>

SweepDone(catalogs, f, r) ==
    Invoked([NoOp EXCEPT !.op = "sweep", !.catalogs = catalogs, !.f = f],
            r, r.stats)

\* views.py:170: a sweep, discover_all_tables(user, catalogs)
Sweep(args, points) ==
    /\ now < MaxOps
    /\ \E user \in Users, catalogs \in args, f \in Plans(points) :
           SweepDone(catalogs, f,
               discover_all_tables(store, ext, f, user, catalogs, now + 1))

SearchDone(term, catalogs, f, r) ==
    Invoked([NoOp EXCEPT !.op = "search", !.catalogs = catalogs,
                         !.term = term, !.f = f],
            r, r.stats)

\* views.py:165-167: a search, search_and_sync_tables(user, term, catalogs)
Search(args, points) ==
    /\ now < MaxOps
    /\ \E user \in Users, term \in SearchTerms, catalogs \in args,
          f \in Plans(points) :
           SearchDone(term, catalogs, f,
               search_and_sync_tables(store, ext, f, user, term, catalogs,
                                      now + 1))

RefreshDone(table, f, r) ==
    Invoked([NoOp EXCEPT !.op = "refresh", !.table = table.full_table_name,
                         !.f = f],
            r, r.val)

\* views.py:124: refresh_table_statistics(table) on a stored table
Refresh(points) ==
    /\ now < MaxOps
    /\ \E table \in store.tables, f \in Plans(points) :
           RefreshDone(table, f,
               refresh_table_statistics(store, ext, f, table, now + 1))

\* the external metadata changes once between two invocations
ExtChange ==
    \E e \in ExtMoves(ext) :
        /\ last.op # "none"
        /\ now < MaxOps
        /\ ext' = e
        /\ last' = NoOp
        /\ UNCHANGED <<store, mappings, now, run>>

\* models.py:246: a FieldMapping is created on a stored column
AddMapping ==
    \E c \in store.columns :
        /\ \E t \in store.tables :
              /\ t.id = c.table
              /\ <<t.full_table_name, c.column_name>> \in MappedColumns
        /\ c.id \notin mappings
        /\ mappings' = mappings \cup {c.id}
        /\ UNCHANGED <<store, ext, now, last, run>>

Next ==
    \/ Sweep(CatalogArgs, WalkFaults)
    \/ Search(SearchCatalogArgs, WalkFaults)
    \/ Refresh(RefreshFaults)
    \/ ExtChange
    \/ AddMapping

Spec == Init /\ [][Next]_vars

\* the sweeps alone, under the failures of the walk
NextSweep ==
    \/ Sweep(CatalogArgs, WalkFaults)
    \/ ExtChange

SpecSweep == Init /\ [][NextSweep]_vars

\* the discovery requests alone: sweeps and searches under the failures of
\* the walk
NextWalk ==
    \/ Sweep(CatalogArgs, WalkFaults)
    \/ Search(SearchCatalogArgs, WalkFaults)
    \/ ExtChange

SpecWalk == Init /\ [][NextWalk]_vars

\* the sweeps of catalog c1 and the refreshes under failures of the
\* profiling queries of table Ab
StatsCatalogArgs == {Some(<<"c1">>)}

NextStats ==
    \/ Sweep(StatsCatalogArgs, ProbeFaults)
    \/ Refresh(ProbeFaults)
    \/ ExtChange

SpecStats == Init /\ [][NextStats]_vars

\* the sweeps of catalog c1 alone, under the same failures
NextProbe ==
    \/ Sweep(StatsCatalogArgs, ProbeFaults)
    \/ ExtChange

SpecProbe == Init /\ [][NextProbe]_vars

\* the failures of the writes that follow other writes of the same sync:
\* the second column of Ab, and the last save of a table
CommitFaults ==
    {<<"save_column", TabA, "y">>,
     <<"save_final", TabA>>,
     <<"save_final", TabB>>}

\* the sweeps and searches in which a sync fails after it has written
NextRollback ==
    \/ Sweep(StatsCatalogArgs, CommitFaults)
    \/ Search(SearchCatalogArgs, CommitFaults)
    \/ ExtChange

SpecRollback == Init /\ [][NextRollback]_vars

\* the failures of a statistics refresh of Ab: the writes, the external
\* service out of reach for the table probe or for the probes of x, and one
\* query of y
AnalyzeFaults ==
    RefreshFaults
        \cup {<<"rowcount", TabA>>,
              <<"stat", TabA, "x", "conn">>,
              <<"stat", TabA, "y", "avg">>}

NoFaults == {}

\* the refreshes of the tables a sweep of c1 has stored
NextRefresh ==
    \/ Sweep(StatsCatalogArgs, NoFaults)
    \/ Refresh(AnalyzeFaults)
    \/ ExtChange

SpecRefresh == Init /\ [][NextRefresh]_vars

\* the analyze requests go one past the sweeps, so that a table whose
\* analysis failed is analyzed again
MaxAnalyzeOps == MaxOps + 1

\* the failures of an analyze request on the table of c2: the three saves
\* of the table row in the order the code reaches them, the save of the
\* handler of the view, the save of column y and the table probe
AnalyzeViewFaults ==
    {<<"save_analyzing", TabE>>,
     <<"save_table", TabE>>,
     <<"save_failed", TabE>>,
     <<"save_view", TabE>>,
     <<"save_column", TabE, "y">>,
     <<"rowcount", TabE>>}

\* the writes of the table row among them
TableRowWrites ==
    {<<"save_analyzing", TabE>>,
     <<"save_table", TabE>>,
     <<"save_failed", TabE>>,
     <<"save_view", TabE>>}

\* the analyze requests follow a sweep of c2
AnalyzeCatalogArgs == {Some(<<"c2">>)}

AnalyzeDone(table, f, r) ==
    Invoked([NoOp EXCEPT !.op = "analyze", !.table = table.full_table_name,
                         !.f = f],
            r, r.res)

\* the failures of one analyze request: a few of all, or any of the writes
\* of the table row
AnalyzePlans == Plans(AnalyzeViewFaults) \cup SUBSET TableRowWrites

\* views.py:113-143: the analyze action on a stored table
Analyze(plans) ==
    /\ now < MaxAnalyzeOps
    /\ \E table \in store.tables, f \in plans :
           AnalyzeDone(table, f, analyze(store, ext, f, table, now + 1))

\* the analyze requests on the table a sweep of c2 has stored
NextAnalyze ==
    \/ Sweep(AnalyzeCatalogArgs, NoFaults)
    \/ Analyze(AnalyzePlans)
    \/ ExtChange

SpecAnalyze == Init /\ [][NextAnalyze]_vars

\* the catalogs argument: omitted, an empty list, or a list
ScopeArgs == {None, Some(<<>>), Some(<<"c2">>)}

\* the failure of the catalog listing
ScopeFaults == {<<"catalogs">>}

\* the sweeps and searches over the three kinds of catalogs argument
NextScope ==
    \/ Sweep(ScopeArgs, ScopeFaults)
    \/ Search(ScopeArgs, ScopeFaults)
    \/ ExtChange

SpecScope == Init /\ [][NextScope]_vars

\* what a client writes into a stored table: the users allowed to see it
\* and whether it is active
Patches ==
    {[source_owners |-> Some("carol"), is_active |-> TRUE],
     [source_owners |-> Some("carol"), is_active |-> FALSE]}

CuratedTables == {TabA}

\* views.py:36-50: SourceTableViewSet is a ModelViewSet, and source_owners
\* and is_active are writable fields of SourceTableSerializer
\* (serializers.py:53-66); an update of a stored table writes them
Curate ==
    \E table \in store.tables, p \in Patches :
        /\ table.full_table_name \in CuratedTables
        /\ table.source_owners = None
        /\ store' = [store EXCEPT !.tables =
               SaveRow(@, [table EXCEPT !.source_owners = p.source_owners,
                                        !.is_active = p.is_active,
                                        !.last_updated = now])]
        /\ UNCHANGED <<ext, mappings, now, last, run>>

\* the sweeps over tables a client has curated
NextCurated ==
    \/ Sweep(CatalogArgs, WalkFaults)
    \/ ExtChange
    \/ Curate

SpecCurated == Init /\ [][NextCurated]_vars

----------------------------------------------------------------------------
(* Overlapping requests.  Each request is served by its own thread; the     *)
(* code takes no lock and selects no row for update.  sync_table runs in a  *)
(* transaction (@transaction.atomic): the rows it writes are in the job's   *)
(* tx, seen by the job alone until the commit, and a row with an            *)
(* uncommitted write cannot be written by another request until then.  The  *)
(* saves of the analyze request are committed one by one.  The primary keys *)
(* come from a sequence shared by all transactions.                         *)

JobIds == {"j1", "j2"}

OtherJob(j) == IF j = "j1" THEN "j2" ELSE "j1"

\* the two discovery requests walk different catalogs
JobCatalogs(j) == IF j = "j1" THEN <<"c1">> ELSE <<"c2">>

\* the failures of a discovery request
JobPlans == {{}, {<<"save_column", TabB, "x">>}}

\* the table an analyze request is sent for
AnalyzedTables == {TabA}

\* the rows of tx over the rows of st with the same primary keys
Overlay(st, tx) ==
    [tables  |-> {r \in st.tables : \A w \in tx.tables : w.id # r.id}
                    \cup tx.tables,
     columns |-> {r \in st.columns : \A w \in tx.columns : w.id # r.id}
                    \cup tx.columns]

\* the rows a transaction writes back with every row of the view it read
WrittenAll(view, st) == st

\* the rows a step of a transaction wrote: those of st that view has not
Written(view, st) ==
    [tables  |-> st.tables \ view.tables,
     columns |-> st.columns \ view.columns]

\* what job j reads: the committed rows under its own writes; the rows of
\* the other open transaction only keep their primary keys from being
\* handed out twice
JobView(j) == Overlay(Overlay(store, run[OtherJob(j)].tx), run[j].tx)

\* the listings of the walk, schema after schema
RECURSIVE TablesOfSchemas(_, _, _, _, _)
TablesOfSchemas(e, f, c, schemas, i) ==
    IF i > Len(schemas) THEN <<>>
    ELSE discover_tables(e, f, c, schemas[i].name).val
            \o TablesOfSchemas(e, f, c, schemas, i + 1)

RECURSIVE TablesOfCatalogs(_, _, _, _)
TablesOfCatalogs(e, f, catalogs, i) ==
    IF i > Len(catalogs) THEN <<>>
    ELSE TablesOfSchemas(e, f, catalogs[i],
                         discover_schemas(f, catalogs[i]).val, 1)
            \o TablesOfCatalogs(e, f, catalogs, i + 1)

RECURSIVE SchemasOfCatalogs(_, _, _)
SchemasOfCatalogs(f, catalogs, i) ==
    IF i > Len(catalogs) THEN 0
    ELSE Len(discover_schemas(f, catalogs[i]).val)
            + SchemasOfCatalogs(f, catalogs, i + 1)

\* views.py:170: a discovery request starts and lists what it walks
StartJob(j) ==
    \E f \in JobPlans :
        /\ run[j].pc = "idle"
        /\ run' = [run EXCEPT ![j] =
               [IdleJob EXCEPT !.pc = "upsert",
                               !.catalogs = JobCatalogs(j),
                               !.f = f,
                               !.clock = now + 1,
                               !.tables = TablesOfCatalogs(ext, f,
                                              JobCatalogs(j), 1)]]
        /\ now' = now + 1
        /\ UNCHANGED <<store, ext, mappings, last>>

\* discovery_service.py:59-77, 105-122, 149-167: the loops go on to the
\* next table; after the last one the report gets its schema and catalog
\* counts.  r is the outcome of sync_table for table i.
JobNext(job, r) ==
    [job EXCEPT
        !.tx = EmptyStore,
        !.i = @ + 1,
        !.pc = IF job.i = Len(job.tables) THEN "done" ELSE "upsert",
        !.stats = IF job.i = Len(job.tables)
                  THEN [CountTable(job.stats, job.tables[job.i], r).stats
                        EXCEPT !.schemas_processed =
                                   SchemasOfCatalogs(job.f, job.catalogs, 1),
                               !.catalogs_processed = Len(job.catalogs)]
                  ELSE CountTable(job.stats, job.tables[job.i], r).stats]

\* discovery_service.py:231-236 and 162-165: sync_table raises, its
\* transaction is rolled back and the loop records the failure
JobFailed(job, cause) ==
    JobNext(job, [raised |-> TRUE, st |-> EmptyStore, cause |-> cause])

\* a sync_table that marks the table completed as soon as it has upserted
\* it, and commits that write at once
JobUpsertedCompleted(j, view, u) ==
    /\ store' = Overlay(store,
                    [tables |-> {CompletedTable(u.table, run[j].clock)},
                     columns |-> {}])
    /\ run' = [run EXCEPT ![j] =
           [@ EXCEPT !.pc = "columns",
                     !.inst = CompletedTable(u.table, run[j].clock),
                     !.created = u.created]]
    /\ UNCHANGED <<ext, mappings, now, last>>

\* discovery_service.py:190-219: what follows get_or_create and the save
\* of a stored table; u is their outcome on the job's view
JobUpserted(j, view, u) ==
    /\ run' = [run EXCEPT ![j] =
           [@ EXCEPT !.pc = "columns",
                     !.inst = u.table,
                     !.created = u.created,
                     !.tx = Overlay(@, Written(view, u.st))]]
    /\ UNCHANGED <<store, ext, mappings, now, last>>

\* discovery_service.py:186-219: sync_table upserts the table row
JobUpsert(j) ==
    /\ run[j].pc = "upsert"
    /\ IF <<"save_table", run[j].tables[run[j].i].full_name>> \in run[j].f
       THEN /\ run' = [run EXCEPT ![j] = JobFailed(@, "PersistenceError")]
            /\ UNCHANGED <<store, ext, mappings, now, last>>
       ELSE JobUpserted(j, JobView(j),
                UpsertTable(JobView(j), "u1", run[j].tables[run[j].i],
                            run[j].clock))

\* discovery_service.py:221-224: what follows sync_table_columns; cs is its
\* outcome on the job's view
JobColumnsSynced(j, view, cs) ==
    /\ run' = [run EXCEPT ![j] =
           IF cs.raised THEN JobFailed(@, cs.cause)
           ELSE [@ EXCEPT !.pc = "finish",
                          !.cstats = cs.stats,
                          !.tx = Overlay(@, Written(view, cs.st))]]
    /\ UNCHANGED <<store, ext, mappings, now, last>>

\* discovery_service.py:221-224: sync_table syncs the columns
JobColumns(j) ==
    /\ run[j].pc = "columns"
    /\ JobColumnsSynced(j, JobView(j),
           sync_table_columns(JobView(j), ext, run[j].f, run[j].inst,
                              run[j].clock))

\* discovery_service.py:226-232: what follows the last save of sync_table;
\* fin is its outcome on the job's view.  The transaction commits.
JobFinished(j, view, fin) ==
    /\ store' = IF fin.raised THEN store
                ELSE Overlay(store,
                         Overlay(run[j].tx, Written(view, fin.st)))
    /\ run' = [run EXCEPT ![j] =
           IF fin.raised THEN JobFailed(@, fin.cause) ELSE JobNext(@, fin)]
    /\ UNCHANGED <<ext, mappings, now, last>>

\* discovery_service.py:226-232: sync_table marks the table completed and
\* returns
JobFinish(j) ==
    /\ run[j].pc = "finish"
    /\ JobFinished(j, JobView(j),
           FinishTable(run[j].f, run[j].tables[run[j].i],
               [table |-> run[j].inst, created |-> run[j].created,
                st |-> JobView(j)],
               [raised |-> FALSE, st |-> JobView(j),
                stats |-> run[j].cstats, cause |-> ""],
               run[j].clock))

\* a row with an uncommitted write of a discovery request
Locked(table) ==
    \E j \in JobIds : \E w \in run[j].tx.tables : w.id = table.id

\* views.py:114: the analyze request loads its table, get_object()
RLoad ==
    \E table \in store.tables :
        /\ run.r.pc = "idle"
        /\ table.full_table_name \in AnalyzedTables
        /\ run' = [run EXCEPT !.r =
               [IdleRefresh EXCEPT !.pc = "loaded", !.inst = table,
                                   !.clock = now + 1]]
        /\ now' = now + 1
        /\ UNCHANGED <<store, ext, mappings, last>>

\* views.py:118-120: the instance is marked analyzing and saved
RMark ==
    /\ run.r.pc = "loaded"
    /\ ~Locked(run.r.inst)
    /\ store' = [store EXCEPT !.tables =
                    SaveRow(@, AnalyzingTable(run.r.inst, run.r.clock))]
    /\ run' = [run EXCEPT !.r.pc = "marked",
                          !.r.inst = AnalyzingTable(@, run.r.clock)]
    /\ UNCHANGED <<ext, mappings, now, last>>

\* views.py:123-135: what follows refresh_table_statistics; r is its
\* outcome
RRefreshed(r) ==
    /\ ~r.raised
    /\ store' = r.st
    /\ run' = [run EXCEPT !.r.pc = "done", !.r.val = r.val]
    /\ UNCHANGED <<ext, mappings, now, last>>

\* views.py:123-124: refresh_table_statistics(table) on the instance
RRefresh ==
    /\ run.r.pc = "marked"
    /\ ~Locked(run.r.inst)
    /\ RRefreshed(refresh_table_statistics(store, ext, run.r.f, run.r.inst,
                                           run.r.clock))

\* the store a sweep of all catalogs leaves
SweptStore ==
    discover_all_tables(EmptyStore, Ext0, {}, "u1", None, 1).st

\* the requests overlap on an empty store or after a first sweep, with the
\* external metadata as it was or changed since
ConcInit ==
    /\ store \in {EmptyStore, SweptStore}
    /\ ext \in {Ext0} \cup ExtMoves(Ext0)
    /\ mappings = {}
    /\ now = 1
    /\ last = NoOp
    /\ run = [IdleRun EXCEPT !.base = store]

NextConc ==
    \/ \E j \in JobIds : StartJob(j)
    \/ \E j \in JobIds : JobUpsert(j)
    \/ \E j \in JobIds : JobColumns(j)
    \/ \E j \in JobIds : JobFinish(j)
    \/ RLoad
    \/ RMark
    \/ RRefresh

SpecConc == ConcInit /\ [][NextConc]_vars

----------------------------------------------------------------------------
(* Properties.                                                              *)

\* the row of the table named t, when it is stored
RowsOf(st, t) == {r \in st.tables : r.full_table_name = t}

\* the stored columns of the table named t
ColumnRowsOf(st, t) ==
    {c \in st.columns : \E r \in RowsOf(st, t) : c.table = r.id}

\* C1: no step of a sweep, a search or a statistics refresh deletes a
\* SourceColumn row: every row stored before the step is stored after it,
\* with the same id, table and name, whether or not the source still
\* reports the column; so every FieldMapping keeps the row it references.
C1_ColumnsNeverDeleted ==
    [][/\ \A c \in store.columns : \E d \in store'.columns :
              d.id = c.id /\ d.table = c.table /\ d.column_name = c.column_name
       /\ \A m \in mappings' : \E d \in store'.columns : d.id = m]_vars

\* C1: a sweep has just reconciled a table one of whose stored columns,
\* referenced by a FieldMapping, is no longer reported by the source
C1_Witness ==
    /\ last.op = "sweep"
    /\ \E c \in ColumnRowsOf(store, TabA) :
          /\ c.id \in mappings
          /\ c.column_name \notin SeqToSet(ExtColumns(ext, TabA))
          /\ c.discovered_at < now
          /\ c.last_updated = now

\* the catalogs a sweep or a search walks
CatalogsWalked(catalogs) ==
    IF NotCatalogs(catalogs) THEN SeqToSet(ExtCatalogs) ELSE SeqToSet(catalogs[1])

\* the tables the external service reports in a set of catalogs
TablesIn(cats) == {t \in AllTabs : t[1] \in cats}

\* the columns the external service reports in a set of catalogs
ColumnsIn(e, cats) ==
    UNION {{<<t, col>> : col \in SeqToSet(ExtColumns(e, t))} : t \in TablesIn(cats)}

\* the table named t was reconciled by the invocation that has just ended
Reconciled(t) ==
    \E r \in RowsOf(store, t) :
        r.analysis_status = "completed" /\ r.last_analyzed = Some(now)

UniqueKeys(st) ==
    /\ \A t1, t2 \in st.tables :
          (t1.id = t2.id \/ t1.full_table_name = t2.full_table_name) => t1 = t2
    /\ \A c1, c2 \in st.columns :
          (c1.id = c2.id \/ (c1.table = c2.table /\ c1.column_name = c2.column_name))
              => c1 = c2

\* C2: after every step the store holds at most one SourceTable row per
\* full_table_name and at most one SourceColumn row per (table, name); a
\* sweep or a search keeps every stored table row under its id and name,
\* and reports as created exactly the rows it added, so a record whose full
\* name was stored is reported as an update.
C2_NaturalKeysUnique ==
    [][/\ UniqueKeys(store')
       /\ (last'.op \in {"sweep", "search"} /\ now' = now + 1) =>
             /\ last'.result.tables_created =
                    Cardinality(store'.tables) - Cardinality(store.tables)
             /\ \A t \in store.tables : \E u \in store'.tables :
                    u.id = t.id /\ u.full_table_name = t.full_table_name]_vars

\* C2: a second invocation has synced a table whose full name was stored
C2_Witness ==
    /\ now = 2
    /\ last.op \in {"sweep", "search"}
    /\ last.result.tables_updated >= 1
    /\ \E r \in store.tables : r.discovered_at = 1 /\ r.last_analyzed = Some(2)

\* C3: when a sweep that reported no error is followed by a second sweep
\* over the same catalogs and unchanged external metadata, the second
\* report has tables_created = 0 and columns_created = 0, counts every
\* table it reconciled as updated, and the numbers of SourceTable and
\* SourceColumn rows are unchanged; when the second sweep reports no error
\* either, tables_updated and columns_updated are the numbers of tables and
\* columns of the walked catalogs.
C3_SecondSweepIdempotent ==
    [][(/\ last.op = "sweep" /\ last.result.errors = <<>>
        /\ last'.op = "sweep" /\ now' = now + 1
        /\ CatalogsWalked(last'.catalogs) \subseteq CatalogsWalked(last.catalogs))
       => /\ last'.result.tables_created = 0
          /\ last'.result.columns_created = 0
          /\ last'.result.tables_updated = last'.result.tables_discovered
          /\ Cardinality(store'.tables) = Cardinality(store.tables)
          /\ Cardinality(store'.columns) = Cardinality(store.columns)
          /\ last'.result.errors = <<>> =>
                /\ last'.result.tables_updated =
                       Cardinality(TablesIn(CatalogsWalked(last'.catalogs)))
                /\ last'.result.columns_updated =
                       Cardinality(ColumnsIn(ext, CatalogsWalked(last'.catalogs)))]_vars

\* C3: a second sweep of all catalogs has updated all five tables and their
\* columns and created nothing
C3_Witness ==
    /\ now = 2
    /\ last.op = "sweep"
    /\ last.result.errors = <<>>
    /\ last.result.tables_created = 0
    /\ last.result.tables_updated = 5
    /\ last.result.columns_updated = Cardinality(ColumnsIn(ext, {"c1", "c2"}))
    /\ last.result.columns_updated >= 5

\* C4: a first sweep over the empty store that reports no error returns
\* tables_discovered = tables_created = the number T of tables the service
\* reports in the walked catalogs, tables_updated = 0, columns_created =
\* the number C of their columns and columns_updated = 0, and the store
\* then holds T table rows and C column rows.
C4_FirstSweepCounts ==
    (now = 1 /\ last.op = "sweep" /\ last.result.errors = <<>>) =>
        /\ last.result.tables_discovered =
               Cardinality(TablesIn(CatalogsWalked(last.catalogs)))
        /\ last.result.tables_created =
               Cardinality(TablesIn(CatalogsWalked(last.catalogs)))
        /\ last.result.tables_updated = 0
        /\ last.result.columns_created =
               Cardinality(ColumnsIn(ext, CatalogsWalked(last.catalogs)))
        /\ last.result.columns_updated = 0
        /\ Cardinality(store.tables) = last.result.tables_created
        /\ Cardinality(store.columns) = last.result.columns_created

\* C4: the first sweep walked both catalogs without a failure: 5 tables
\* with 2 + 1 + 1 + 0 + 1 columns
C4_Witness ==
    /\ now = 1
    /\ last.op = "sweep"
    /\ last.catalogs = None
    /\ last.result.errors = <<>>
    /\ last.result.tables_created = 5
    /\ last.result.columns_created = 5

\* the fault points of the walk that a sweep of the given catalogs meets
PointsMet(catalogs) ==
    IF NotCatalogs(catalogs) THEN WalkFaults ELSE WalkFaults \ {<<"catalogs">>}

\* C5: in a sweep of schema c1.s1, whose tables are reconciled in the order
\* Ab, b, c, where the only failure is a write of a column of b, the tables
\* Ab and c are completed by this sweep and the errors list holds exactly
\* one entry, which names b.
C5_PartialFailureIsolated ==
    (/\ last.op = "sweep"
     /\ last.f \cap PointsMet(last.catalogs) = {<<"save_column", TabB, "x">>})
    => /\ Reconciled(TabA)
       /\ Reconciled(TabC)
       /\ last.result.errors =
              <<<<"Failed to sync table", TabB, "PersistenceError">>>>

\* C5: such a sweep has ended, and b is not stored: its sync was rolled back
C5_Witness ==
    /\ now = 1
    /\ last.op = "sweep"
    /\ last.f = {<<"save_column", TabB, "x">>}
    /\ Reconciled(TabA) /\ Reconciled(TabC)
    /\ RowsOf(store, TabB) = {}
    /\ Len(last.result.errors) = 1

\* the profiling queries of column x of table Ab that fail under plan f
FailedProbes(f) ==
    {p \in {"conn", "null", "distinct", "avg", "minmax", "sample"} :
        <<"stat", TabA, "x", p>> \in f}

\* C6: when, in a sync of table Ab, the distinct-count query of column x
\* fails and no other query of the column does, the stored row of x gets
\* the newly computed null_count, min_value and max_value and keeps the
\* distinct_count it had before the sync (0 if the row is new).
C6_StatisticsDegrade ==
    [][(/\ last'.op = "sweep" /\ now' = now + 1
        /\ FailedProbes(last'.f) = {"distinct"}
        /\ "x" \in SeqToSet(ExtColumns(ext, TabA)))
       => \A c \in ColumnRowsOf(store', TabA) :
             c.column_name = "x" =>
                /\ c.null_count = ExtNullCount(ext, TabA, "x")
                /\ c.min_value = Some(ExtMin(ext, TabA, "x"))
                /\ c.max_value = Some(ExtMax(ext, TabA, "x"))
                /\ c.distinct_count =
                       IF \E o \in store.columns : o.id = c.id
                       THEN (CHOOSE o \in store.columns : o.id = c.id).distinct_count
                       ELSE 0]_vars

\* C7: every sweep and every search returns to its caller, with a report
\* that carries the errors list, whatever listing or write failed.
C7_EntryPointsNeverRaise ==
    last.op \in {"sweep", "search"} =>
        /\ ~last.raised
        /\ "errors" \in DOMAIN last.result

\* C7: a search whose catalog listing failed has returned a report
C7_Witness ==
    /\ last.op = "search"
    /\ last.catalogs = None
    /\ <<"catalogs">> \in last.f
    /\ ~last.raised
    /\ last.result.errors = <<<<"Search and sync failed">>>>

\* the listings that lead to table t succeed under plan f
ScopeListed(f, t) ==
    <<"schemas", t[1]>> \notin f /\ <<"tables", t[1], t[2]>> \notin f

\* the sync of table t fails under plan f
TableFails(e, f, t) ==
    \/ <<"columns", t>> \in f
    \/ <<"save_table", t>> \in f
    \/ <<"save_final", t>> \in f
    \/ \E col \in SeqToSet(ExtColumns(e, t)) : <<"save_column", t, col>> \in f

\* the catalog listing was asked for and failed
CatalogListingFailed ==
    NotCatalogs(last.catalogs) /\ <<"catalogs">> \in last.f

\* the schemas of a set of catalogs, as <<catalog, schema>>
SchemasIn(cats) == {<<t[1], t[2]>> : t \in TablesIn(cats)}

\* the entries of the errors list that name a scope
EntriesFor(scope) ==
    {i \in DOMAIN last.result.errors :
        SubSeq(last.result.errors[i], 1, Len(scope)) = scope}

\* C8: in a sweep whose catalogs are known, every catalog whose schemas
\* cannot be listed, every schema of a listed catalog whose tables cannot
\* be listed and every listed table whose sync fails has exactly one entry
\* in the errors list, which holds nothing else, and every table of the
\* walked catalogs that is listed and whose sync does not fail is
\* reconciled by the sweep.
C8_SweepContinuesOnError ==
    (last.op = "sweep" /\ ~CatalogListingFailed) =>
        LET cats == CatalogsWalked(last.catalogs)
            fc == {c \in cats : <<"schemas", c>> \in last.f}
            fs == {cs \in SchemasIn(cats \ fc) :
                      <<"tables", cs[1], cs[2]>> \in last.f}
            ft == {t \in TablesIn(cats) :
                      ScopeListed(last.f, t) /\ TableFails(ext, last.f, t)}
        IN  /\ \A c \in fc : Cardinality(EntriesFor(
                  <<"Failed to discover schemas in catalog", c>>)) = 1
            /\ \A cs \in fs : Cardinality(EntriesFor(
                  <<"Failed to discover tables in", cs[1], cs[2]>>)) = 1
            /\ \A t \in ft : Cardinality(EntriesFor(
                  <<"Failed to sync table", t>>)) = 1
            /\ Len(last.result.errors) =
                   Cardinality(fc) + Cardinality(fs) + Cardinality(ft)
            /\ \A t \in TablesIn(cats) :
                  (ScopeListed(last.f, t) /\ ~TableFails(ext, last.f, t))
                      => Reconciled(t)

\* C8: a sweep of all catalogs could not list the tables of c1.s1; the
\* next schema and the next catalog were reconciled
C8_Witness ==
    /\ last.op = "sweep"
    /\ last.catalogs = None
    /\ last.f = {<<"tables", "c1", "s1">>}
    /\ last.result.errors = <<<<"Failed to discover tables in", "c1", "s1">>>>
    /\ Reconciled(TabD)
    /\ Reconciled(TabE)

\* the tables a search for a term is to find
Wanted(term, cats) ==
    {t \in TablesIn(cats) : Matches(term, TableData(ext, {}, t))}

SweepKeys ==
    {"catalogs_processed", "schemas_processed", "tables_discovered",
     "tables_created", "tables_updated", "columns_created",
     "columns_updated", "errors"}

SearchKeys ==
    {"tables_found", "tables_synced", "tables_created", "tables_updated",
     "columns_created", "columns_updated", "errors"}

TablesMatching(term) ==
    IF term = "aB" THEN {TabA, TabC, TabE} ELSE {}

\* C11: a search changes or creates no table row and no column row of a
\* table that does not match the term; when its catalogs are known, every
\* matching table whose listings succeed and whose sync does not fail is
\* reconciled, and tables_synced counts exactly those tables.
C11_SearchReconcilesMatches ==
    [][(last'.op = "search" /\ now' = now + 1) =>
          /\ \A t \in AllTabs \ TablesMatching(last'.term) :
                /\ RowsOf(store', t) = RowsOf(store, t)
                /\ ColumnRowsOf(store', t) = ColumnRowsOf(store, t)
          /\ ~(NotCatalogs(last'.catalogs) /\ <<"catalogs">> \in last'.f) =>
                /\ \A t \in TablesMatching(last'.term) :
                      (ScopeListed(last'.f, t) /\ ~TableFails(ext, last'.f, t))
                      => \E r \in RowsOf(store', t) :
                            /\ r.analysis_status = "completed"
                            /\ r.last_analyzed = Some(now')
                /\ last'.result.tables_synced =
                       Cardinality({t \in TablesMatching(last'.term) :
                           ScopeListed(last'.f, t)
                           /\ ~TableFails(ext, last'.f, t)})]_vars

\* C11: a search without failures has reconciled the three matching tables
\* and stored nothing of the two others
C11_Witness ==
    /\ now = 1
    /\ last.op = "search"
    /\ last.f = {}
    /\ last.result.tables_found = 3
    /\ last.result.tables_synced = 3
    /\ Reconciled(TabA) /\ Reconciled(TabC) /\ Reconciled(TabE)
    /\ RowsOf(store, TabB) = {} /\ RowsOf(store, TabD) = {}

\* discovery request j has reconciled table t without an error
JobSynced(j, t) ==
    /\ run[j].pc = "done"
    /\ \E i \in DOMAIN run[j].tables : run[j].tables[i].full_name = t
    /\ \A i \in DOMAIN run[j].stats.errors : run[j].stats.errors[i][2] # t

\* C12: when an analyze request on table Ab and a discovery request that
\* syncs Ab have both ended without an error, in whatever order their steps
\* were taken, the row of Ab holds what sync_table wrote (table_type,
\* table_format, location and owner as discovered) and what the refresh
\* wrote (row_count and size_bytes as measured, analysis_status completed).
C12_NoLostUpdate ==
    (JobSynced("j1", TabA) /\ run.r.pc = "done" /\ run.r.val) =>
        \A row \in RowsOf(store, TabA) :
            /\ row.table_type = ExtTableType(TabA)
            /\ row.table_format = "DELTA"
            /\ row.location = "loc"
            /\ row.owner = ExtOwner(ext, TabA)
            /\ row.row_count = ExtRowCount(ext, TabA)
            /\ row.size_bytes = ExtSizeBytes(ext, TabA)
            /\ row.analysis_status = "completed"

\* a store without its primary keys: a column names its table
Keyless(st) ==
    [tables  |-> {[k \in DOMAIN r \ {"id"} |-> r[k]] : r \in st.tables},
     columns |-> {[k \in DOMAIN c \ {"id"} |->
                      IF k = "table"
                      THEN {t.full_table_name : t \in {u \in st.tables :
                                                          u.id = c.table}}
                      ELSE c[k]] : c \in st.columns}]

\* the sweep of job j, run in one piece on store st
SerialRun(j, st) ==
    discover_all_tables(st, ext, run[j].f, "u1", Some(run[j].catalogs),
                        run[j].clock)

\* the reports and the store are those of the serial runs s1 and s2
AgreesWith(j, k, s1, s2) ==
    /\ run[j].stats = s1.stats
    /\ run[k].stats = s2.stats
    /\ Keyless(store) = Keyless(s2.st)

AsIfSerial(j, k, s1) == AgreesWith(j, k, s1, SerialRun(k, s1.st))

\* C13: when two sweeps over different catalogs, hence over disjoint sets
\* of table names, have overlapped in any way and both have ended (and no
\* analyze request ran), each report and the store, primary keys aside, are
\* what running the two sweeps one after the other gives, in either order.
C13_DisjointJobsSerial ==
    (run.j1.pc = "done" /\ run.j2.pc = "done" /\ run.r.pc = "idle") =>
        /\ AsIfSerial("j1", "j2", SerialRun("j1", run.base))
        /\ AsIfSerial("j2", "j1", SerialRun("j2", run.base))

\* C13: both sweeps have ended on a store that was empty, and the primary
\* keys show that their transactions alternated
C13_Witness ==
    /\ run.j1.pc = "done" /\ run.j2.pc = "done" /\ run.r.pc = "idle"
    /\ run.base = EmptyStore
    /\ \E a \in RowsOf(store, TabA), b \in RowsOf(store, TabC),
          e \in RowsOf(store, TabE) : a.id < e.id /\ e.id < b.id
    /\ run.j1.stats.tables_created >= 3
    /\ run.j2.stats.tables_created = 1

\* a store without its timestamps; of last_analyzed it keeps whether the
\* table was ever analyzed
Timeless(st) ==
    [tables  |-> {[k \in DOMAIN r \ {"discovered_at", "last_updated"} |->
                      IF k = "last_analyzed" THEN r[k] # None ELSE r[k]] :
                  r \in st.tables},
     columns |-> {[k \in DOMAIN c \ {"discovered_at", "last_updated"} |->
                      c[k]] : c \in st.columns}]

\* the full name of the table a stored column belongs to
TableOf(st, c) ==
    (CHOOSE t \in st.tables : t.id = c.table).full_table_name

\* the report and the rows are those of the call r, which is made on the
\* same store, metadata and arguments at another time
SameOutcome(r) ==
    /\ last'.result = r.stats
    /\ Timeless(store') = Timeless(r.st)

C15_SyncAllOrNothing ==
    [][(last'.op \in {"sweep", "search"} /\ now' = now + 1) =>
          \A t \in AllTabs :
              TableFails(ext, last'.f, t) =>
                  /\ RowsOf(store', t) = RowsOf(store, t)
                  /\ ColumnRowsOf(store', t) = ColumnRowsOf(store, t)
                  /\ RowsOf(store, t) = {} =>
                        \A c \in store'.columns :
                            \E r \in store'.tables : r.id = c.table]_vars

\* C15: a second sweep found a new owner for table Ab, could not list its
\* columns, and left its row as the first sweep wrote it, while it updated
\* the next table
C15_Witness ==
    /\ now = 2
    /\ last.op = "sweep"
    /\ <<"columns", TabA>> \in last.f
    /\ \E i \in DOMAIN last.result.errors :
          /\ last.result.errors[i][1] = "Failed to sync table"
          /\ last.result.errors[i][2] = TabA
    /\ ExtOwner(ext, TabA) = "bob"
    /\ \E r \in RowsOf(store, TabA) :
          r.owner = "alice" /\ r.last_updated = 1
    /\ \E r \in RowsOf(store, TabB) :
          r.owner = "bob" /\ r.last_updated = 2

\* C16: after a sweep in which the sync of the stored table b failed in the
\* write of its column x, the analysis_status of the row of b is failed.
C16_FailedSyncMarksFailed ==
    (/\ last.op = "sweep"
     /\ <<"save_column", TabB, "x">> \in last.f
     /\ ScopeListed(last.f, TabB)
     /\ ~CatalogListingFailed
     /\ RowsOf(store, TabB) # {})
    => \A r \in RowsOf(store, TabB) : r.analysis_status = "failed"

\* job j is inside sync_table for table t
Syncing(j, t) ==
    /\ run[j].pc \in {"upsert", "columns", "finish"}
    /\ run[j].tables[run[j].i].full_name = t

\* a committed row of table t shows the completion stamp of job j
ShowsCompleted(j, t) ==
    \E r \in RowsOf(store, t) :
        r.analysis_status = "completed" /\ r.last_analyzed = Some(run[j].clock)

\* C17: while a discovery request is inside sync_table for a table, from
\* the upsert to the last save, no committed row of that table, which is
\* what any other reader sees, is completed with the last_analyzed of this
\* run; and whenever a committed row shows the completion of a run, every
\* column the source reports for the table is stored for that row, written
\* by that run or by a later refresh.
C17_CompletedOnlyAfterColumns ==
    \A j \in JobIds : \A t \in AllTabs :
        /\ (run[j].pc # "idle" /\ Syncing(j, t)) => ~ShowsCompleted(j, t)
        /\ (run[j].pc # "idle" /\ ShowsCompleted(j, t)) =>
              \A r \in RowsOf(store, t) :
                  \A col \in SeqToSet(ExtColumns(ext, t)) :
                      \E d \in store.columns :
                          /\ d.table = r.id /\ d.column_name = col
                          /\ d.last_updated \in {run[j].clock, run.r.clock}

\* C17: a sweep has written the new table Ab and its two columns in its
\* open transaction and has not yet saved it as completed: no reader sees
\* the table
C17_Witness ==
    /\ Syncing("j1", TabA)
    /\ run.j1.pc = "finish"
    /\ run.j1.created
    /\ Cardinality(run.j1.tx.columns) = 2
    /\ \A r \in run.j1.tx.tables : r.analysis_status = "pending"
    /\ RowsOf(store, TabA) = {}

PositionIn(e, t, col) ==
    CHOOSE i \in DOMAIN ExtColumns(e, t) : ExtColumns(e, t)[i] = col

\* C19: when a sweep or a search has reconciled a stored table, every
\* column row of it whose name the source still reports is afterwards the
\* only row of that table and name, under the primary key and with the
\* discovered_at it had, carrying the discovered position and type and the
\* time of the run as last_updated; a FieldMapping on it references the
\* same column as before.
C19_DiscoveredColumnUpdatedInPlace ==
    [][(last'.op \in {"sweep", "search"} /\ now' = now + 1) =>
          \A r \in store.tables :
             (\E u \in store'.tables :
                 /\ u.full_table_name = r.full_table_name
                 /\ u.analysis_status = "completed"
                 /\ u.last_analyzed = Some(now'))
             => \A c \in store.columns :
                   (/\ c.table = r.id
                    /\ c.column_name \in
                           SeqToSet(ExtColumns(ext, r.full_table_name)))
                   => /\ \E d \in store'.columns :
                            /\ d.id = c.id
                            /\ d.discovered_at = c.discovered_at
                            /\ d.business_description = c.business_description
                            /\ d.column_position =
                                  PositionIn(ext, r.full_table_name,
                                             c.column_name)
                            /\ d.data_type = ExtTypeName(c.column_name)
                            /\ d.last_updated = now'
                      /\ \A d \in store'.columns :
                            (d.table = c.table /\ d.column_name = c.column_name)
                                => d.id = c.id
                      /\ c.id \in mappings => c.id \in mappings']_vars

\* C19: column x of Ab, stored at position 1 and referenced by a
\* FieldMapping, moved to position 2 in the source and a sweep has
\* reconciled Ab: the mapped row now has position 2
C19_Witness ==
    /\ last.op = "sweep"
    /\ Reconciled(TabA)
    /\ ExtColumns(ext, TabA) = <<"y", "x">>
    /\ \E c \in ColumnRowsOf(store, TabA) :
          /\ c.column_name = "x"
          /\ c.id \in mappings
          /\ c.column_position = 2
          /\ c.discovered_at < now /\ c.last_updated = now

\* C20: when a sweep has reconciled a table that was already stored, its
\* row has the table_type, table_format, location, owner, row_count and
\* size_bytes the source reported in this run, and the id, names,
\* discovered_by, discovered_at, source_owners and is_active it had.
C20_UpdateOverwritesDiscoveredFields ==
    [][\A t \in AllTabs :
          (last'.op = "sweep" /\ now' = now + 1 /\ Reconciled(t)')
          => \A r \in RowsOf(store, t) :
                /\ RowsOf(store', t) # {}
                /\ \A d \in RowsOf(store', t) :
                      /\ d.table_type = TableData(ext, last'.f, t).table_type
                      /\ d.table_format =
                            TableData(ext, last'.f, t).data_source_format
                      /\ d.location =
                            TableData(ext, last'.f, t).storage_location
                      /\ d.owner = TableData(ext, last'.f, t).owner
                      /\ d.row_count = TableData(ext, last'.f, t).row_count
                      /\ d.size_bytes = TableData(ext, last'.f, t).size_bytes
                      /\ d.source_owners = r.source_owners
                      /\ d.is_active = r.is_active
                      /\ d.id = r.id
                      /\ d.discovered_by = r.discovered_by
                      /\ d.discovered_at = r.discovered_at]_vars

\* C20: Ab was stored with owner alice and 10 rows, a client restricted it
\* to carol and deactivated it, the source changed, and a sweep has
\* reconciled Ab: the row has owner bob and 11 rows and is still restricted
\* to carol and inactive
C20_Witness ==
    /\ last.op = "sweep"
    /\ Reconciled(TabA)
    /\ \E r \in RowsOf(store, TabA) :
          /\ r.discovered_at < now
          /\ r.owner = "bob" /\ r.row_count = 11 /\ r.size_bytes = 101
          /\ r.source_owners = Some("carol")
          /\ ~r.is_active

\* C21: when a sweep or a search has just reconciled a table, every stored
\* column of it that the source reported in that run, created or updated,
\* has as column_position its 1-based place in the column list of the
\* source.
C21_PositionIsSourceOrdinal ==
    \A t \in AllTabs :
        (last.op \in {"sweep", "search"} /\ Reconciled(t))
        => \A i \in DOMAIN ExtColumns(ext, t) :
              \E c \in ColumnRowsOf(store, t) :
                  /\ c.column_name = ExtColumns(ext, t)[i]
                  /\ c.column_position = i
                  /\ c.last_updated = now

\* C21: the source lists the columns of Ab as y, x after having listed
\* them as x, y, and a sweep has reconciled Ab: the stored rows of y and x
\* now have the positions 1 and 2
C21_Witness ==
    /\ last.op = "sweep"
    /\ Reconciled(TabA)
    /\ ext.acols = <<"y", "x">>
    /\ \E c, d \in ColumnRowsOf(store, TabA) :
          /\ c.column_name = "y" /\ c.column_position = 1
          /\ d.column_name = "x" /\ d.column_position = 2
          /\ c.discovered_at < now /\ d.discovered_at < now

\* C22: a sweep in which probes of table Ab fail (the row-count query, the
\* DESCRIBE DETAIL query, statistics queries of its columns) and nothing
\* else does reconciles Ab and reports no error; when DESCRIBE DETAIL fails
\* and the row-count query does not, the row has size_bytes 0 and the row
\* count that was measured.
C22_ProbeFailureNeverFailsTable ==
    last.op = "sweep" =>
        /\ Reconciled(TabA)
        /\ last.result.errors = <<>>
        /\ \A c \in SeqToSet(ExtColumns(ext, TabA)) :
              \E d \in ColumnRowsOf(store, TabA) :
                  d.column_name = c /\ d.last_updated = now
        /\ (<<"detail", TabA>> \in last.f /\ <<"rowcount", TabA>> \notin last.f)
           => \A r \in RowsOf(store, TabA) :
                 r.size_bytes = 0 /\ r.row_count = ExtRowCount(ext, TabA)

\* C22: a sweep in which DESCRIBE DETAIL of Ab and the null-count query of
\* its column x failed has reconciled Ab, with size_bytes 0 and the row
\* count of the source
C22_Witness ==
    /\ last.op = "sweep"
    /\ last.f = {<<"detail", TabA>>, <<"stat", TabA, "x", "null">>}
    /\ Reconciled(TabA)
    /\ \E r \in RowsOf(store, TabA) :
          r.size_bytes = 0 /\ r.row_count = ExtRowCount(ext, TabA)

\* the tables for which the invocation that has just ended called
\* sync_table: those of the listed scopes, and for a search the matching
\* ones among them
Attempted ==
    {t \in (IF last.op = "search"
            THEN Wanted(last.term, CatalogsWalked(last.catalogs))
            ELSE TablesIn(CatalogsWalked(last.catalogs))) :
        ScopeListed(last.f, t)}

\* the entries of the errors list left by failed calls of sync_table
SyncEntries ==
    {i \in DOMAIN last.result.errors :
        last.result.errors[i][1] = "Failed to sync table"}

\* C23: in a sweep or a search whose catalogs are known, each table of the
\* listings is synced once: a table whose sync fails has exactly one entry
\* in the errors list and is not reconciled by the invocation, the errors
\* list has no other sync entry, and each table whose sync succeeds is
\* counted once, in tables_created or in tables_updated, and each of its
\* columns once, in columns_created or in columns_updated.
C23_EachTableSyncedOnce ==
    (last.op \in {"sweep", "search"} /\ ~CatalogListingFailed) =>
        /\ \A t \in Attempted :
              IF TableFails(ext, last.f, t)
              THEN /\ Cardinality(EntriesFor(<<"Failed to sync table", t>>)) = 1
                   /\ ~Reconciled(t)
              ELSE /\ EntriesFor(<<"Failed to sync table", t>>) = {}
                   /\ Reconciled(t)
        /\ Cardinality(SyncEntries) =
               Cardinality({t \in Attempted : TableFails(ext, last.f, t)})
        /\ last.result.tables_created + last.result.tables_updated =
               Cardinality({t \in Attempted : ~TableFails(ext, last.f, t)})
        /\ last.result.columns_created + last.result.columns_updated =
               Cardinality(UNION {{<<t, col>> : col \in SeqToSet(ExtColumns(ext, t))} :
                   t \in {u \in Attempted : ~TableFails(ext, last.f, u)}})

\* C23: a second sweep met failures in the sync of the stored tables Ab and
\* b: each has its one entry, and the three other tables were updated once
C23_Witness ==
    /\ now = 2
    /\ last.op = "sweep"
    /\ last.catalogs = None
    /\ last.f = {<<"columns", TabA>>, <<"save_column", TabB, "x">>}
    /\ Cardinality(store.tables) = 5
    /\ Len(last.result.errors) = 2
    /\ last.result.tables_created = 0
    /\ last.result.tables_updated = 3
    /\ last.result.columns_updated = 2

\* C24: a sweep that is given no catalog list and whose catalog listing
\* fails leaves every SourceTable and SourceColumn row as it was and returns
\* a report whose counters are all zero and whose errors list holds the
\* failure of the catalog listing and nothing else, whatever else would
\* have failed.
C24_CatalogListingFailureEndsSweep ==
    [][(/\ last'.op = "sweep" /\ now' = now + 1
        /\ NotCatalogs(last'.catalogs)
        /\ <<"catalogs">> \in last'.f)
       => /\ store' = store
          /\ last'.result =
                [catalogs_processed |-> 0, schemas_processed |-> 0,
                 tables_discovered |-> 0, tables_created |-> 0,
                 tables_updated |-> 0, columns_created |-> 0,
                 columns_updated |-> 0,
                 errors |-> <<<<"Failed to discover catalogs">>>>]]_vars

\* C24: after a sweep that stored five tables, a sweep without a catalog
\* list could not list the catalogs (nor could it have listed the schemas
\* of c1): no row was touched and the report holds the one error
C24_Witness ==
    /\ now = 2
    /\ last.op = "sweep"
    /\ last.catalogs = None
    /\ last.f = {<<"catalogs">>, <<"schemas", "c1">>}
    /\ Cardinality(store.tables) = 5
    /\ \A r \in store.tables : r.last_updated = 1
    /\ last.result.catalogs_processed = 0
    /\ Len(last.result.errors) = 1

\* the tables the listings of the sweep that has just ended returned
Listed == IF CatalogListingFailed THEN {} ELSE Attempted

\* C25: in the report of every sweep tables_discovered = tables_created +
\* tables_updated, and tables_discovered plus the number of entries of the
\* errors list left by failed syncs is the number of tables the listings
\* returned.
C25_DiscoveredIsCreatedPlusUpdated ==
    last.op = "sweep" =>
        /\ last.result.tables_discovered =
               last.result.tables_created + last.result.tables_updated
        /\ last.result.tables_discovered + Cardinality(SyncEntries) =
               Cardinality(Listed)

\* C25: a sweep listed five tables, three of them stored, and the sync of
\* the new table b failed: four are discovered, one created, three updated
C25_Witness ==
    /\ last.op = "sweep"
    /\ last.catalogs = None
    /\ Cardinality(Listed) = 5
    /\ Cardinality(SyncEntries) = 1
    /\ last.result.tables_discovered = 4
    /\ last.result.tables_created = 1
    /\ last.result.tables_updated = 3

\* the table rows, after the step, of the tables whose sync this
\* invocation committed
Committed == {r \in store'.tables : r.last_analyzed = Some(now')}

\* C26: the counters of the report of a sweep or a search are the committed
\* effects of the invocation: tables_created is the number of table rows
\* added to the store and tables_updated the number of stored tables whose
\* sync committed; columns_created is the number of column rows added, all
\* of them rows of tables whose sync committed, and columns_updated the
\* number of stored columns of such tables that the source reports; the
\* rows of every other table are as they were.
C26_CountersAreCommittedEffects ==
    [][(last'.op \in {"sweep", "search"} /\ now' = now + 1) =>
          /\ last'.result.tables_created =
                 Cardinality({r \in store'.tables :
                                 \A o \in store.tables : o.id # r.id})
          /\ last'.result.tables_updated =
                 Cardinality({o \in store.tables :
                                 \E r \in Committed : r.id = o.id})
          /\ last'.result.columns_created =
                 Cardinality({d \in store'.columns :
                                 \A c \in store.columns : c.id # d.id})
          /\ \A d \in store'.columns :
                (\A c \in store.columns : c.id # d.id)
                    => \E r \in Committed : d.table = r.id
          /\ last'.result.columns_updated =
                 Cardinality({c \in store.columns : \E r \in Committed :
                     /\ c.table = r.id
                     /\ c.column_name \in
                            SeqToSet(ExtColumns(ext, r.full_table_name))})
          /\ \A o \in store.tables :
                (\A r \in Committed : r.id # o.id) => o \in store'.tables
          /\ \A c \in store.columns :
                (\A r \in Committed : r.id # c.table) => c \in store'.columns]_vars

\* C26: the source reordered the columns of the stored table Ab; a sweep of
\* c1 rewrote both columns and then failed in the last save of Ab: x is
\* stored at position 1 as before, and the report counts the tables b, c
\* and d and the two columns of b and c only
C26_Witness ==
    /\ now = 2
    /\ last.op = "sweep"
    /\ last.f = {<<"save_final", TabA>>}
    /\ ext.acols = <<"y", "x">>
    /\ \E c \in ColumnRowsOf(store, TabA) :
          c.column_name = "x" /\ c.column_position = 1 /\ c.last_updated = 1
    /\ last.result.tables_updated = 3
    /\ last.result.columns_updated = 2
    /\ last.result.columns_created = 0
    /\ Len(last.result.errors) = 1

\* C27: in the report of a sweep whose catalogs are known,
\* catalogs_processed is the number of catalogs walked, whether or not their
\* schemas could be listed, and schemas_processed is the number of schemas
\* of the catalogs whose schemas were listed, whether or not their tables
\* could be listed or synced; when the catalog listing failed both are 0.
C27_ProcessedCountsVisits ==
    last.op = "sweep" =>
        IF CatalogListingFailed
        THEN /\ last.result.catalogs_processed = 0
             /\ last.result.schemas_processed = 0
        ELSE /\ last.result.catalogs_processed =
                    Cardinality(CatalogsWalked(last.catalogs))
             /\ last.result.schemas_processed =
                    Cardinality(UNION {{<<c, s>> : s \in SeqToSet(ExtSchemas(c))} :
                        c \in {k \in CatalogsWalked(last.catalogs) :
                                  <<"schemas", k>> \notin last.f}})

\* C27: a sweep of both catalogs could not list the schemas of c1: both
\* catalogs are counted, and so is the one schema of c2
C27_Witness ==
    /\ last.op = "sweep"
    /\ last.catalogs = None
    /\ last.f = {<<"schemas", "c1">>}
    /\ last.result.catalogs_processed = 2
    /\ last.result.schemas_processed = 1
    /\ Len(last.result.errors) = 1

\* C28: a statistics refresh of a stored table whose row can be saved
\* returns true, whatever probe fails: the row is completed with
\* last_analyzed the time of the refresh, with row_count and size_bytes 0
\* when the external service could not be reached for the table probe;
\* each column whose save fails is the row it was and every other column
\* of the table is refreshed.  When the save of the row fails the refresh
\* returns false, the row is failed and no column is refreshed.
C28_RefreshReturnsTrueUnlessSaveFails ==
    [][(last'.op = "refresh" /\ now' = now + 1) =>
          \A r \in RowsOf(store', last'.table) :
             IF <<"save_table", last'.table>> \notin last'.f
             THEN /\ last'.result = TRUE
                  /\ r.analysis_status = "completed"
                  /\ r.last_analyzed = Some(now')
                  /\ <<"rowcount", last'.table>> \in last'.f
                        => r.row_count = 0 /\ r.size_bytes = 0
                  /\ \A c \in store.columns :
                        c.table = r.id =>
                           IF <<"save_column", last'.table, c.column_name>>
                                  \in last'.f
                           THEN c \in store'.columns
                           ELSE \E d \in store'.columns :
                                   d.id = c.id /\ d.last_updated = now'
             ELSE /\ last'.result = FALSE
                  /\ r.analysis_status = "failed"
                  /\ \A c \in store.columns :
                        c.table = r.id => c \in store'.columns]_vars

\* C28: a refresh of Ab could not reach the external service for the table
\* probe and could not save column x: it returned true, Ab is completed
\* with 0 rows, y is refreshed and x is not
C28_Witness ==
    /\ last.op = "refresh"
    /\ last.table = TabA
    /\ last.f = {<<"rowcount", TabA>>, <<"save_column", TabA, "x">>}
    /\ last.result = TRUE
    /\ \E r \in RowsOf(store, TabA) :
          /\ r.analysis_status = "completed"
          /\ r.last_analyzed = Some(now)
          /\ r.row_count = 0
    /\ \E c, d \in ColumnRowsOf(store, TabA) :
          /\ c.column_name = "x" /\ c.last_updated < now
          /\ d.column_name = "y" /\ d.last_updated = now

\* the step left the rows and the report of the call r
SameAs(r) == store' = r.st /\ last'.result = r.stats

\* the tables of all catalogs that match a search term
AllMatching(term) == {t \in AllTabs : Matches(term, TableData(ext, {}, t))}

\* C29: a sweep or a search that is given an empty catalog list leaves the
\* rows and the report of the same call without a catalog list; both list
\* the catalogs, so that they change nothing when that listing fails and
\* otherwise walk every catalog of the external service.  With a non-empty
\* list the catalog listing is not called, a failure of it has no effect,
\* and only tables of the listed catalogs are written.
C29_EmptyCatalogListIsOmitted ==
    [][(last'.op \in {"sweep", "search"} /\ now' = now + 1) =>
          /\ (last'.catalogs = Some(<<>>) /\ last'.op = "sweep") =>
                SameAs(discover_all_tables(store, ext, last'.f, "u1", None,
                                           now'))
          /\ (last'.catalogs = Some(<<>>) /\ last'.op = "search") =>
                SameAs(search_and_sync_tables(store, ext, last'.f, "u1",
                                              last'.term, None, now'))
          /\ last'.catalogs \in {None, Some(<<>>)} =>
                IF <<"catalogs">> \in last'.f
                THEN /\ store' = store
                     /\ Len(last'.result.errors) = 1
                ELSE /\ last'.result.errors = <<>>
                     /\ last'.op = "sweep" =>
                           /\ last'.result.catalogs_processed = Len(ExtCatalogs)
                           /\ \A t \in AllTabs : Reconciled(t)'
                     /\ last'.op = "search" =>
                           /\ last'.result.tables_found =
                                  Cardinality(AllMatching(last'.term))
                           /\ \A t \in AllMatching(last'.term) : Reconciled(t)'
          /\ last'.catalogs \notin {None, Some(<<>>)} =>
                /\ last'.result.errors = <<>>
                /\ \A r \in store'.tables :
                      r.last_updated = now' =>
                          r.catalog_name \in SeqToSet(last'.catalogs[1])
                /\ last'.op = "sweep" =>
                      /\ last'.result.catalogs_processed =
                             Len(last'.catalogs[1])
                      /\ \A t \in AllTabs :
                            t[1] \in SeqToSet(last'.catalogs[1])
                                => Reconciled(t)'
                /\ last'.op = "search" =>
                      \A t \in AllMatching(last'.term) :
                          t[1] \in SeqToSet(last'.catalogs[1])
                              => Reconciled(t)']_vars

\* C29: a sweep that was given the empty list has walked both catalogs and
\* stored the five tables
C29_Witness ==
    /\ now = 1
    /\ last.op = "sweep"
    /\ last.catalogs = Some(<<>>)
    /\ last.f = {}
    /\ last.result.catalogs_processed = 2
    /\ last.result.tables_created = 5

\* the stored row of the table the last invocation was about
LastRows == {r \in store.tables : r.full_table_name = last.table}

\* C30: an analyze action whose writes of the table row succeed returns a
\* response; once it has returned one, the row of its table is not
\* analyzing: it is completed when refresh_table_statistics returned true
\* and failed otherwise.
C30_AnalyzeEndsCompletedOrFailed ==
    last.op = "analyze" =>
        /\ last.f \cap TableRowWrites = {} => ~last.raised
        /\ ~last.raised =>
              /\ LastRows # {}
              /\ \A r \in LastRows :
                    /\ r.analysis_status # "analyzing"
                    /\ r.analysis_status \in {"completed", "failed"}
                    /\ r.analysis_status = "completed"
                           <=> last.result.success = Some(TRUE)
                    /\ r.analysis_status = last.result.status

\* C30: the third request analyzed the table of c2 while the probe of its
\* row count and the save of its column y failed; the action answered 200
\* and the row is completed, with the time of this analysis and a row count
\* of 0
C30_Witness ==
    /\ last.op = "analyze"
    /\ last.table = TabE
    /\ last.f = {<<"rowcount", TabE>>, <<"save_column", TabE, "y">>}
    /\ now = 3
    /\ ~last.raised
    /\ last.result.http = 200
    /\ last.result.success = Some(TRUE)
    /\ \E r \in LastRows :
          /\ r.analysis_status = "completed"
          /\ r.last_analyzed = Some(3)
          /\ r.row_count = 0

============================================================================
